---- MODULE Spec2Model ----
(***************************************************************************)
(* State-machine model of the broker core of tv-forward: the error         *)
(* taxonomy and retry predicate (broker/errors.go), the utility layer      *)
(* (broker/utils.go), the signal processor (broker/integration.go), the    *)
(* broker manager (type Manager) and TradingService.executeOnBinance       *)
(* (internal/services/trading.go).                                         *)
(*                                                                         *)
(* Each component has its own specification over the shared variables; a   *)
(* specification leaves the other components' variables at their idle      *)
(* values.                                                                 *)
(***************************************************************************)
EXTENDS Integers, Sequences, FiniteSets, TLC

VARIABLES
    \* ---- error classification (errors.go) ----
    clsErr,        \* the error handed to IsRetryableError
    clsOut,        \* "unset" | "retryable" | "terminal"
    \* ---- RetryWithBackoff (utils.go) ----
    rMax,          \* maxRetries
    rBase,         \* baseDelay, an int64 of nanoseconds
    rPc,           \* "idle" | "loop" | "select" | "blocked" | "call" | "done"
    rAttempt,      \* the loop variable attempt
    rLastErr,      \* lastErr
    rRet,          \* the returned error (Nil: success)
    rCtxDone,      \* ctx.Done() is closed
    rTimer,        \* the time.After channel holds a value
    rDelays,       \* the delays computed so far, in order
    rCalls,        \* number of invocations of fn
    rLastRes,      \* result of the latest invocation of fn
    rHist,         \* history flags of the run (see RetryHist0)
    \* ---- order calculation (utils.go, integration.go, trading.go) ----
    oSig,          \* the signal the builders are applied to
    oCalc,         \* << >>, or <<result of CalculateOrderQuantity>>
    oReqSP,        \* << >>, or <<result of calculateOrderFromSignal>>
    oReqTS,        \* << >>, or <<result of convertSignalToOrderRequest>>
    \* ---- Manager and the connectors it holds ----
    brokers,       \* Manager.brokers: name -> connector, 0 when absent
    connected,     \* connector -> what its IsConnected() returns
    nConns,        \* connectors created so far
    mRet,          \* error returned by the latest AddBroker / RemoveBroker / Close
    mClosed,       \* connector -> Close() invocations made by the latest
                   \* Manager.Close
    mFailed,       \* connectors whose Close() failed in the latest Manager.Close
    mOp,           \* "Close" when the latest Manager call is Close, else ""
    mBefore,       \* the registry as it was when the latest Close started
    \* ---- Manager.InitializeBroker calls, one at a time ----
    ibPc,          \* "idle" | "created" | "initialized" | "done"
    ibName,        \* the name argument
    ibConn,        \* the connector Create returned, 0 when none
    ibInitErr,     \* what broker.Initialize returned
    ibAdded,       \* AddBroker was reached in this call
    ibRet,         \* the returned error
    \* ---- one Binance connector (binance.Client), used by one caller ----
    cCreds,        \* c.credentials: << >> for nil, else <<credentials>>
    cClient,       \* c.client: << >> for nil, else <<the keys it was built from>>
    cConnected,    \* c.connected
    cOp,           \* the latest method called, "" before the first
    cArg,          \* the credentials argument of the latest Initialize
    cRet,          \* the error the latest call returned
    cProbe,        \* the liveness probe of the latest call: "none" | "ok" | "fail"
    cSdk,          \* the latest call reached the exchange SDK (probe aside)
    cPrev,         \* credentials, client and flag as they were before the
                   \* latest call
    cClosedSince,  \* Close was called and no Initialize has succeeded since
    \* ---- one Manager.ExecuteOnAllBrokers call ----
    ePc,           \* "idle" | "locked" | "loop" | "call" | "done"
    eSnap,         \* the local copy of the registry
    eTodo,         \* names the range loop has not reached yet
    eCur,          \* the name the loop is at
    eResults,      \* the results map: name -> << >> (no entry) or <<error>>
    eSeen,         \* name -> "unvisited" | "connected" | "disconnected"
    eCalls,        \* name -> invocations of operation on that broker
    eOpErr,        \* name -> error the operation returned there (Nil: none)
    eQuiet,        \* no registry or connector change since the call started
    \* ---- one SignalProcessor.ProcessSignal call ----
    spSig,         \* the signal
    spPc,          \* "idle" | "validate" | "getbroker" | "isconnected" |
                   \* "leverage" | "calc" | "place" | "done"
    spBroker,      \* the connector GetBroker returned, 0 before
    spReq,         \* orderReq, a sequence: << >> for nil
    spRet,         \* the returned error (Nil: success)
    spCalls,       \* connector calls made: [isConnected, setLeverage, placeOrder]
    spLevErr,      \* the error SetLeverage returned
    spPlaceErr,    \* the error PlaceOrder returned
    spTrace,       \* the Manager and connector calls made so far, in order
    \* ---- one TradingService.executeOnBinance(Legacy) call ----
    xMode,         \* "signal" (executeOnBinance) | "legacy"
    xSig,          \* the signal of executeOnBinance
    xAlert,        \* the alert of executeOnBinanceLegacy
    xPc,           \* "idle" | "prepare" | "convert" | "place" | "retry" | "done"
    xReq,          \* orderReq
    xRet,          \* the returned error
    xPlaceCalls,   \* invocations of PlaceOrder
    xErrs,         \* the error of each PlaceOrder attempt, in order
    xClient,       \* "none" | "connected" | "closed"
    \* ---- one SignalProcessor.ProcessMultipleSignals call ----
    bSignals,      \* the signals argument (index 1 is Go's index 0)
    bPc,           \* "idle" | "spawn" | "collect" | "returned"
    bI,            \* the loop variable of the loop the caller is in
    bTask,         \* goroutine of index i: "none" | "run" | "send" | "done"
    bErr,          \* index -> << >>, or <<what its ProcessSignal returned>>
    bChan,         \* resultChan: the buffered results, oldest first
    bResults,      \* the results slice
    bRet,          \* << >>, or <<the returned slice>>
    bOrder,        \* the indices in the order they were sent on resultChan
    \* ---- ConfigManager, its calls one after another ----
    kCfg,          \* cm.config: << >> for nil, else <<name -> entry>>
    kPc,           \* "idle" | "ranging" | "done"
    kOp,           \* the latest call: "" | "InitializeBrokers" | "ReconnectBroker"
    kArg,          \* the name argument of the latest ReconnectBroker
    kTodo,         \* names the range loop of InitializeBrokers has not reached
    kAttempts,     \* name -> initializeBroker calls made by the latest call
    kErr,          \* name -> << >>, or <<what initializeBroker returned>>
    kErrors,       \* the errors slice of InitializeBrokers: the names, in order
    kSetErr,       \* name -> what applyBrokerSettings returned (Nil: none)
    kRet,          \* the error the latest call returned
    kTouched,      \* connectors on which the latest call invoked a method
    kBefore,       \* the registry as it was when the latest call started
    \* ---- one aggregate helper of the Manager ----
    aKind,         \* "" | "GetAllPositions" | "GetAllAccountInfo" |
                   \* "CloseAllPositions" | "SetLeverageOnAllBrokers"
    aFutures,      \* connector -> it implements FuturesBroker
    aData,         \* the helper's own results map: name -> 0 (no entry), or
                   \* the connector whose answer is stored
    aRet,          \* << >>, or <<the returned map>>
    \* ---- one Manager.TestConnections call ----
    tClient,       \* connector -> its SDK client is set (binance c.client)
    tLink,         \* connector -> the exchange answers its liveness probe
    tPc,           \* "idle" | "ranging" | "done"
    tTodo,         \* names the range loop has not reached yet
    tCalls,        \* name -> TestConnection calls made on its broker
    tOut,          \* name -> error of the TestConnection call (Nil: none)
    tResults,      \* the results map: name -> << >> (no entry) or <<error>>
    tRet,          \* << >>, or <<the returned map>>
    \* ---- broker.ValidateOrderRequest and binance Client.PlaceOrder ----
    vReq,          \* the *OrderRequest argument (NilRequest for nil)
    vConnected,    \* c.connected of the connector PlaceOrder is called on
    vOp,           \* "" | "ValidateOrderRequest" | "PlaceOrder"
    vRet,          \* the error the latest call returned
    vSubmitted,    \* requests handed to the exchange SDK so far
    vSdkErr,       \* what the SDK answered the latest PlaceOrder (Nil: an
                   \* order, or no SDK call)
    \* ---- TradingService.trackBinanceOrderStatus on one signal ----
    tkOrderID,     \* signal.OrderID
    tkStatus,      \* signal.Status
    tkExecutedAt,  \* signal.ExecutedAt: 0 for nil, else the instant
    tkErrorMessage, \* signal.ErrorMessage
    tkNow,         \* what time.Now() returns
    tkCall,        \* << >>, or <<the latest call: what GetOrder and Save
                   \* answered, and the signal's fields before it>>
    tkRet,         \* the error the latest call returned
    tkSaved,       \* the signal's row in the database: << >> when it was
                   \* never saved, else <<Status, ExecutedAt>>
    \* ---- AddBroker / RemoveBroker calls with their arguments ----
    gCall,         \* << >>, or <<the latest call: method, name, broker
                   \* argument (0 for nil), registry and connector flags
                   \* before it>>
    \* ---- one Manager.HealthCheck call ----
    hRet,          \* << >>, or <<the returned map: name -> << >> (no
                   \* entry) or <<healthy>> >>
    \* ---- one ClosePosition call on a Binance connector ----
    cpPos,         \* the exchange's position for the symbol: << >> when
                   \* GetPositions lists none, else <<its Size string>>
    cpConnected,   \* c.connected
    cpSide,        \* the positionSide argument
    cpDone,        \* the call has returned
    cpRet,         \* the error it returned
    cpOrders,      \* the order requests handed to the exchange SDK
    cpAccepted,    \* the exchange accepted the order
    \* ---- validatePositionChange of the two trading services ----
    pvPrev,        \* signal.PrevMarketPositionSize
    pvStored,      \* the stored position of the symbol: << >> when there
                   \* is none, else <<its Size string>>
    pvLoadErr,     \* what GetUserPositions returns as error
    pvEnhanced,    \* << >>, or <<what EnhancedTradingService's returned>>
    pvOriginal     \* << >>, or <<what TradingService's returned>>

errVars   == <<clsErr, clsOut>>
retryVars == <<rMax, rBase, rPc, rAttempt, rLastErr, rRet, rCtxDone, rTimer,
               rDelays, rCalls, rLastRes, rHist>>
orderVars == <<oSig, oCalc, oReqSP, oReqTS>>
mgrVars   == <<brokers, connected, nConns, mRet, mClosed, mFailed, mOp,
               mBefore>>
initVars  == <<ibPc, ibName, ibConn, ibInitErr, ibAdded, ibRet>>
cliVars   == <<cCreds, cClient, cConnected, cOp, cArg, cRet, cProbe, cSdk,
               cPrev, cClosedSince>>
batchVars == <<bSignals, bPc, bI, bTask, bErr, bChan, bResults, bRet, bOrder>>
cfgVars   == <<kCfg, kPc, kOp, kArg, kTodo, kAttempts, kErr, kErrors, kSetErr,
               kRet, kTouched, kBefore>>
aggVars   == <<aKind, aFutures, aData, aRet>>
testVars  == <<tClient, tLink, tPc, tTodo, tCalls, tOut, tResults, tRet>>
valVars   == <<vReq, vConnected, vOp, vRet, vSubmitted, vSdkErr>>
trackVars == <<tkOrderID, tkStatus, tkExecutedAt, tkErrorMessage, tkNow,
               tkCall, tkRet, tkSaved>>
regVars   == <<gCall>>
healthVars == <<hRet>>
closeVars == <<cpPos, cpConnected, cpSide, cpDone, cpRet, cpOrders, cpAccepted>>
posVars   == <<pvPrev, pvStored, pvLoadErr, pvEnhanced, pvOriginal>>
extVars   == <<initVars, cliVars, batchVars, cfgVars, aggVars, testVars, valVars, trackVars, regVars, healthVars, closeVars, posVars>>
fanVars   == <<ePc, eSnap, eTodo, eCur, eResults, eSeen, eCalls, eOpErr, eQuiet>>
sigVars   == <<spSig, spPc, spBroker, spReq, spRet, spCalls, spLevErr,
               spPlaceErr, spTrace>>
execVars  == <<xMode, xSig, xAlert, xPc, xReq, xRet, xPlaceCalls, xErrs, xClient>>
vars      == <<errVars, retryVars, orderVars, mgrVars, fanVars, sigVars, execVars,
               extVars>>

\* What the actions of one component leave alone.
notErr    == <<retryVars, orderVars, mgrVars, fanVars, sigVars, execVars,
               extVars>>
notRetry  == <<errVars, orderVars, mgrVars, fanVars, sigVars, execVars,
               extVars>>
notOrder  == <<errVars, retryVars, mgrVars, fanVars, sigVars, execVars,
               extVars>>
notMgr    == <<errVars, retryVars, orderVars, sigVars, execVars,
               extVars>>
notSignal == <<errVars, retryVars, orderVars, fanVars, execVars,
               extVars>>
notExec   == <<errVars, retryVars, orderVars, mgrVars, fanVars, sigVars,
               extVars>>
notInit   == <<errVars, retryVars, orderVars, fanVars, sigVars, execVars,
               cliVars, batchVars, cfgVars, aggVars,
               testVars,
               valVars,
               trackVars,
               regVars,
               healthVars,
               closeVars,
               posVars>>
notClient == <<errVars, retryVars, orderVars, mgrVars, fanVars, sigVars,
               execVars, initVars, batchVars, cfgVars, aggVars,
               testVars,
               valVars,
               trackVars,
               regVars,
               healthVars,
               closeVars,
               posVars>>
notBatch  == <<errVars, retryVars, orderVars, mgrVars, fanVars, sigVars,
               execVars, initVars, cliVars, cfgVars, aggVars,
               testVars,
               valVars,
               trackVars,
               regVars,
               healthVars,
               closeVars,
               posVars>>
notCfg    == <<errVars, retryVars, orderVars, fanVars, sigVars, execVars,
               initVars, cliVars, batchVars, aggVars,
               testVars,
               valVars,
               trackVars,
               regVars,
               healthVars,
               closeVars,
               posVars>>
notAgg    == <<errVars, retryVars, orderVars, sigVars, execVars, initVars,
               cliVars, batchVars, cfgVars,
               testVars,
               valVars,
               trackVars,
               regVars,
               healthVars,
               closeVars,
               posVars>>
notTest   == <<errVars, retryVars, orderVars, mgrVars, fanVars, sigVars,
               execVars, initVars, cliVars, batchVars, cfgVars, aggVars,
               valVars,
               trackVars,
               regVars,
               healthVars,
               closeVars,
               posVars>>
notVal    == <<errVars, retryVars, orderVars, mgrVars, fanVars, sigVars,
               execVars, initVars, cliVars, batchVars, cfgVars, aggVars,
               testVars,
               trackVars,
               regVars,
               healthVars,
               closeVars,
               posVars>>
notTrack  == <<errVars, retryVars, orderVars, mgrVars, fanVars, sigVars,
               execVars, initVars, cliVars, batchVars, cfgVars, aggVars,
               testVars, valVars,
               regVars,
               healthVars,
               closeVars,
               posVars>>
notReg    == <<errVars, retryVars, orderVars, fanVars, sigVars,
               execVars, initVars, cliVars, batchVars, cfgVars, aggVars,
               testVars, valVars, trackVars,
               healthVars,
               closeVars,
               posVars>>
notHealth == <<errVars, retryVars, orderVars, mgrVars, fanVars, sigVars,
               execVars, initVars, cliVars, batchVars, cfgVars, aggVars,
               testVars, valVars, trackVars, regVars,
               closeVars,
               posVars>>
notClose  == <<errVars, retryVars, orderVars, mgrVars, fanVars, sigVars,
               execVars, initVars, cliVars, batchVars, cfgVars, aggVars,
               testVars, valVars, trackVars, regVars, healthVars,
               posVars>>
notPos    == <<errVars, retryVars, orderVars, mgrVars, fanVars, sigVars,
               execVars, initVars, cliVars, batchVars, cfgVars, aggVars,
               testVars, valVars, trackVars, regVars, healthVars, closeVars>>

-----------------------------------------------------------------------------
(***************************************************************************)
(* Errors.  A Go error value is modelled by its Unwrap chain, outermost    *)
(* layer first; the nil error is the empty chain.  A layer is a sentinel   *)
(* (errors.New, compared by identity), a plain error without a cause       *)
(* (fmt.Errorf without %w; val is its text), a context error, an           *)
(* fmt.Errorf("...%w") wrapper, or a *BrokerError (val is its Code; its    *)
(* Err is the rest of the chain, nil when it is the last layer).           *)
(***************************************************************************)
Nil == << >>

Sentinels ==
    {"ErrBrokerNotFound", "ErrInvalidCredentials", "ErrNotConnected",
     "ErrInvalidSymbol", "ErrInvalidOrderType", "ErrInvalidOrderSide",
     "ErrInvalidQuantity", "ErrInvalidPrice", "ErrInsufficientBalance",
     "ErrOrderNotFound", "ErrPositionNotFound", "ErrMarketClosed",
     "ErrRateLimitExceeded", "ErrAPIError", "ErrNetworkError", "ErrTimeout",
     "ErrInvalidLeverage", "ErrInvalidMarginType"}

Sentinel(name)  == << [kind |-> "sentinel", val |-> name] >>
PlainErr(text)  == << [kind |-> "plain", val |-> text] >>
CtxErr          == << [kind |-> "ctx", val |-> "context canceled"] >>
Errorf(text, err) == << [kind |-> "wrap", val |-> text] >> \o err
NewBrokerError(code, err) == << [kind |-> "broker", val |-> code] >> \o err

\* The Code values the classification distinguishes, and codes the Binance
\* connector uses (client.go:287, futures.go:73).
RetryCodes == {"RATE_LIMIT", "NETWORK_ERROR", "TIMEOUT", "SERVER_ERROR"}
OtherCodes == {"ORDER_FAILED", "CLOSE_POSITION_FAILED"}
Codes      == RetryCodes \cup OtherCodes

errorsIs_NoUnwrap(err, target) ==
    err # << >> /\ Head(err) = [kind |-> "sentinel", val |-> target]

\* errors.Is(err, target) for a sentinel target: walk the Unwrap chain.
RECURSIVE errorsIs(_, _)
errorsIs(err, target) ==
    IF err = Nil THEN FALSE
    ELSE IF Head(err) = [kind |-> "sentinel", val |-> target] THEN TRUE
    ELSE errorsIs(Tail(err), target)

\* errors.As(err, &brokerErr): the first *BrokerError of the chain, as the
\* chain starting at it (Nil when there is none).
RECURSIVE errorsAsBroker(_)
errorsAsBroker(err) ==
    IF err = Nil THEN Nil
    ELSE IF Head(err).kind = "broker" THEN err
    ELSE errorsAsBroker(Tail(err))

IsTemporaryError_NoCodes(err) ==
    IF err = Nil THEN FALSE
    ELSE errorsIs(err, "ErrRateLimitExceeded")
         \/ errorsIs(err, "ErrNetworkError")
         \/ errorsIs(err, "ErrTimeout")

IsTemporaryError(err) ==
    IF err = Nil THEN FALSE
    ELSE IF errorsIs(err, "ErrRateLimitExceeded")
            \/ errorsIs(err, "ErrNetworkError")
            \/ errorsIs(err, "ErrTimeout") THEN TRUE
    ELSE LET brokerErr == errorsAsBroker(err) IN
         IF brokerErr # Nil /\ Head(brokerErr).val \in RetryCodes THEN TRUE
         ELSE FALSE

IsRetryableError(err) == IsTemporaryError(err)

-----------------------------------------------------------------------------
(* The error values the classification is checked on: chains of at most     *)
(* MaxWrapDepth wrappers around a last layer.                               *)
MaxWrapDepth == 2

WrapLayers == {[kind |-> "wrap", val |-> "failed"]}
                  \cup {[kind |-> "broker", val |-> c] : c \in Codes}
LastLayers == {[kind |-> "sentinel", val |-> s] : s \in Sentinels}
                  \cup {[kind |-> "plain", val |-> "other"],
                        [kind |-> "ctx", val |-> "context canceled"]}
                  \cup {[kind |-> "broker", val |-> c] : c \in Codes}

RECURSIVE WrapSeqs(_)
WrapSeqs(n) ==
    IF n = 0 THEN {Nil}
    ELSE LET shorter == WrapSeqs(n - 1) IN
         shorter \cup {<<w>> \o s : w \in WrapLayers,
                                    s \in {x \in shorter : Len(x) = n - 1}}

Errors == {Nil} \cup {w \o <<l>> : w \in WrapSeqs(MaxWrapDepth), l \in LastLayers}

IdleErr == clsErr = Nil /\ clsOut = "unset"

InitErr == clsErr \in Errors /\ clsOut = "unset"

Classify ==
    /\ clsOut = "unset"
    /\ clsOut' = IF IsRetryableError(clsErr) THEN "retryable" ELSE "terminal"
    /\ UNCHANGED <<clsErr, notErr>>

-----------------------------------------------------------------------------
(***************************************************************************)
(* time.Duration: a signed 64-bit count of nanoseconds, kept as eight      *)
(* 8-bit limbs, least significant first, so that the wrap-around of the    *)
(* multiplication in RetryWithBackoff is the machine's.                    *)
(***************************************************************************)
LimbIdx == 0 .. 7

\* The int64 of a small non-negative number (below 2^31).
I64(n) == [i \in LimbIdx |-> IF i < 4 THEN (n \div (256 ^ i)) % 256 ELSE 0]

RECURSIVE ColSum(_, _, _, _)
ColSum(a, b, k, i) ==
    IF i > k THEN 0 ELSE a[i] * b[k - i] + ColSum(a, b, k, i + 1)

RECURSIVE MulCarry(_, _, _)
MulCarry(a, b, k) ==
    IF k = 0 THEN 0
    ELSE (ColSum(a, b, k - 1, 0) + MulCarry(a, b, k - 1)) \div 256

\* a * b, wrapping modulo 2^64.
Mul64(a, b) ==
    [k \in LimbIdx |-> (ColSum(a, b, k, 0) + MulCarry(a, b, k)) % 256]

\* 1 << n as an int64: bit n set; zero once n reaches 64.
Shl1(n) ==
    [k \in LimbIdx |-> IF n < 64 /\ n \div 8 = k THEN 2 ^ (n % 8) ELSE 0]

IsNeg64(a) == a[7] >= 128

RECURSIVE UGt(_, _, _)
UGt(a, b, k) ==
    IF k < 0 THEN FALSE
    ELSE IF a[k] # b[k] THEN a[k] > b[k]
    ELSE UGt(a, b, k - 1)

\* a > b as signed 64-bit numbers.
Gt64(a, b) ==
    IF IsNeg64(a) # IsNeg64(b) THEN IsNeg64(b) ELSE UGt(a, b, 7)

Millisecond == I64(1000000)
Second      == I64(1000000000)
Minute      == Mul64(I64(60), Second)

\* The delay before attempt `attempt` (utils.go:155-158).
BackoffDelay(baseDelay, attempt) ==
    LET delay == Mul64(baseDelay, Shl1(attempt - 1)) IN
    IF Gt64(delay, Minute) THEN Minute ELSE delay

-----------------------------------------------------------------------------
(***************************************************************************)
(* RetryWithBackoff(ctx, maxRetries, baseDelay, fn) (utils.go:150-186),    *)
(* one call.  fn is the caller's operation: each invocation returns nil or *)
(* an error of FnErrors.  The context may be cancelled at any moment.      *)
(* The select of lines 160-164 follows Go's rules: evaluated with several  *)
(* ready cases it takes any of them; with none it blocks and the first     *)
(* channel to become ready decides.                                        *)
(***************************************************************************)
MaxRetriesBound == 35

\* Manager.RetryOperation passes time.Second (Manager.RetryOperation).
\* The largest power of two a positive time.Duration can hold.
MaxPow2Delay == Shl1(62)

BaseDelays == {Millisecond, Second, Minute, MaxPow2Delay}

FnErrors == {Sentinel("ErrTimeout"),
             NewBrokerError("SERVER_ERROR", PlainErr("other")),
             Sentinel("ErrInvalidSymbol"),
             NewBrokerError("ORDER_FAILED", PlainErr("other"))}

\* History of a run, for stating the claims:
\*   afterFinal   fn was invoked after an invocation returned nil or a
\*                non-retryable error
\*   cancelInWait the context was cancelled while the call was blocked in
\*                its select, and atCancel is rCalls at that moment
RetryHist0 == [afterFinal |-> FALSE, cancelInWait |-> FALSE, atCancel |-> 0]

IdleRetry ==
    /\ rMax = 0 /\ rBase = Second /\ rPc = "idle" /\ rAttempt = 0
    /\ rLastErr = Nil /\ rRet = Nil /\ rCtxDone = FALSE /\ rTimer = FALSE
    /\ rDelays = << >> /\ rCalls = 0 /\ rLastRes = Nil /\ rHist = RetryHist0

InitRetry ==
    /\ rMax \in -1 .. MaxRetriesBound
    /\ rBase \in BaseDelays
    /\ rPc = "loop" /\ rAttempt = 0
    /\ rLastErr = Nil /\ rRet = Nil /\ rCtxDone \in BOOLEAN /\ rTimer = FALSE
    /\ rDelays = << >> /\ rCalls = 0 /\ rLastRes = Nil /\ rHist = RetryHist0

LoopCond_OffByOne(attempt, maxRetries) == attempt < maxRetries

\* The loop condition of line 153.
LoopCond(attempt, maxRetries) == attempt <= maxRetries

\* Lines 153-158: the loop test, and for attempt > 0 the delay and the timer
\* of time.After.
RLoop ==
    /\ rPc = "loop"
    /\ IF ~LoopCond(rAttempt, rMax)
         THEN /\ rPc' = "done" /\ rRet' = rLastErr
              /\ UNCHANGED <<rDelays, rTimer>>
         ELSE IF rAttempt > 0
           THEN /\ rDelays' = Append(rDelays, BackoffDelay(rBase, rAttempt))
                /\ rTimer' = FALSE
                /\ rPc' = "select"
                /\ UNCHANGED rRet
           ELSE /\ rPc' = "call"
                /\ UNCHANGED <<rDelays, rTimer, rRet>>
    /\ UNCHANGED <<rMax, rBase, rAttempt, rLastErr, rCtxDone, rCalls,
                   rLastRes, rHist, notRetry>>

\* The timer of time.After(delay) fires.  Before the select is evaluated it
\* makes the timer case ready; on a blocked select it is the first ready
\* case, and the loop goes on to fn.
RTimerFires ==
    /\ rPc \in {"select", "blocked"}
    /\ ~rTimer
    /\ rTimer' = TRUE
    /\ rPc' = IF rPc = "blocked" THEN "call" ELSE rPc
    /\ UNCHANGED <<rMax, rBase, rAttempt, rLastErr, rRet, rCtxDone, rDelays,
                   rCalls, rLastRes, rHist, notRetry>>

SelectTakesCtx_Ignored(ctxDone, timer) == FALSE

\* Whether the select of lines 160-164 may take the ctx.Done() case.
SelectTakesCtx(ctxDone, timer) == ctxDone

\* Lines 160-164, evaluated: any ready case, else block.
RSelect ==
    /\ rPc = "select"
    /\ \/ /\ SelectTakesCtx(rCtxDone, rTimer)
          /\ rPc' = "done" /\ rRet' = CtxErr
       \/ /\ rTimer
          /\ rPc' = "call" /\ UNCHANGED rRet
       \/ /\ ~rCtxDone /\ ~rTimer
          /\ rPc' = "blocked" /\ UNCHANGED rRet
    /\ UNCHANGED <<rMax, rBase, rAttempt, rLastErr, rCtxDone, rTimer, rDelays,
                   rCalls, rLastRes, rHist, notRetry>>

\* The caller's context is cancelled (or its deadline passes).  A call
\* blocked in the select wakes on ctx.Done() and returns ctx.Err().
RCancel ==
    /\ rPc \in {"loop", "select", "blocked", "call"}
    /\ ~rCtxDone
    /\ rCtxDone' = TRUE
    /\ IF rPc = "blocked" /\ SelectTakesCtx(TRUE, rTimer)
         THEN /\ rPc' = "done" /\ rRet' = CtxErr
              /\ rHist' = [rHist EXCEPT !.cancelInWait = TRUE,
                                        !.atCancel = rCalls]
         ELSE /\ UNCHANGED <<rPc, rRet>>
              /\ rHist' = IF rPc = "blocked"
                            THEN [rHist EXCEPT !.cancelInWait = TRUE,
                                               !.atCancel = rCalls]
                            ELSE rHist
    /\ UNCHANGED <<rMax, rBase, rAttempt, rLastErr, rTimer, rDelays, rCalls,
                   rLastRes, notRetry>>

StopsOn_LastAttemptOnly(err, attempt, maxRetries) == attempt = maxRetries

\* Lines 174-182: whether the loop is left after fn returned err.
StopsOn(err, attempt, maxRetries) ==
    ~IsRetryableError(err) \/ attempt = maxRetries

\* Lines 167-182: fn is invoked and its result decides.
RCall ==
    /\ rPc = "call"
    /\ rCalls' = rCalls + 1
    /\ rHist' = [rHist EXCEPT !.afterFinal =
                    @ \/ (rCalls > 0 /\ ~IsRetryableError(rLastRes))]
    /\ \E err \in {Nil} \cup FnErrors :
         /\ rLastRes' = err
         /\ IF err = Nil
              THEN /\ rPc' = "done" /\ rRet' = Nil
                   /\ UNCHANGED <<rLastErr, rAttempt>>
              ELSE /\ rLastErr' = err
                   /\ IF StopsOn(err, rAttempt, rMax)
                        THEN /\ rPc' = "done" /\ rRet' = err
                             /\ UNCHANGED rAttempt
                        ELSE /\ rPc' = "loop" /\ rAttempt' = rAttempt + 1
                             /\ UNCHANGED rRet
    /\ UNCHANGED <<rMax, rBase, rCtxDone, rTimer, rDelays, notRetry>>

RetryStep == RLoop \/ RTimerFires \/ RSelect \/ RCall

-----------------------------------------------------------------------------
(***************************************************************************)
(* Order calculation.  A position size is a number of fine units,          *)
(* UnitsPerTick to the tick of 10^-8 that FormatQuantity(q, 8) prints, so  *)
(* that formatting rounds.  A size string of a signal is a number,         *)
(* the empty string or text that strconv.ParseFloat rejects.  The float64  *)
(* rounding of the subtraction is not modelled: sizes are exact.           *)
(***************************************************************************)
MaxSize == 6

UnitsPerTick == 5

Sizes == -MaxSize .. MaxSize

NumStr(v) == [kind |-> "num", v |-> v]
EmptyStr  == [kind |-> "empty", v |-> 0]
BadStr    == [kind |-> "bad", v |-> 0]
NaNStr    == [kind |-> "nan", v |-> 0]
InfStr(sign) == [kind |-> "inf", v |-> sign]
SizeStrs  == {NumStr(v) : v \in Sizes} \cup {EmptyStr, BadStr}

\* strconv.ParseFloat(s, 64): the value, or a *strconv.NumError.
\* It accepts the spellings of NaN and of the infinities ("NaN", "Inf",
\* "+Inf", "-Infinity", in any case) with a nil error; class tells the
\* three kinds of float64 apart, and v is the sign of an infinity.
ParseFloat(s) ==
    CASE s.kind = "num" -> [v |-> s.v, err |-> Nil, class |-> "finite"]
      [] s.kind = "nan" -> [v |-> 0, err |-> Nil, class |-> "nan"]
      [] s.kind = "inf" -> [v |-> s.v, err |-> Nil, class |-> "inf"]
      [] OTHER -> [v |-> 0, class |-> "finite",
                   err |-> PlainErr("strconv.ParseFloat: invalid syntax")]

\* FormatQuantity(quantity, 8) (utils.go:74-77): "%.8f" rounds a
\* non-negative quantity to the nearest tick.
FormatQuantity(quantity) ==
    NumStr(((2 * quantity + UnitsPerTick) \div (2 * UnitsPerTick))
             * UnitsPerTick)

\* strings.ToUpper / strings.ToLower on the strings the model uses.
ToUpper(str) == IF str = "btcusdt" THEN "BTCUSDT" ELSE str
ToLower_Identity(str) == str

ToLower(str) == IF str = "Binance" THEN "binance" ELSE str

\* FormatSymbol (utils.go:12-35).
FormatSymbol(symbol, exchange) ==
    LET up == ToUpper(symbol) IN
    IF exchange = "okx" /\ up = "BTCUSDT" THEN "BTC-USDT" ELSE up

NoChange == PlainErr("no position change required")

CalculateOrderQuantity_Signed(currentSize, targetSize) ==
    LET diff == targetSize - currentSize IN
    IF diff = 0 THEN [quantity |-> 0, side |-> "", err |-> NoChange]
    ELSE [quantity |-> diff,
          side |-> IF diff < 0 THEN "SELL" ELSE "BUY", err |-> Nil]

\* CalculateOrderQuantity (utils.go:131-147).
CalculateOrderQuantity(currentSize, targetSize) ==
    LET diff == targetSize - currentSize IN
    IF diff = 0 THEN [quantity |-> 0, side |-> "", err |-> NoChange]
    ELSE IF diff < 0 THEN [quantity |-> -diff, side |-> "SELL", err |-> Nil]
    ELSE [quantity |-> diff, side |-> "BUY", err |-> Nil]

PositionSideOf_NoBoth(targetSize) ==
    IF targetSize >= 0 THEN "LONG" ELSE "SHORT"

\* The position side of lines 155-163 (trading.go:996-1004).
PositionSideOf(targetSize) ==
    IF targetSize > 0 THEN "LONG"
    ELSE IF targetSize < 0 THEN "SHORT"
    ELSE "BOTH"

ReduceOnlyOf_NoFlip(currentSize, targetSize) ==
    \/ currentSize > 0 /\ targetSize < currentSize /\ targetSize >= 0
    \/ currentSize < 0 /\ targetSize > currentSize /\ targetSize <= 0

\* The reduce-only flag of integration.go:187 (trading.go:1031).
ReduceOnlyOf(currentSize, targetSize) ==
    \/ currentSize > 0 /\ targetSize < currentSize
    \/ currentSize < 0 /\ targetSize > currentSize

\* The request both builders fill in once quantity and side are known
\* (integration.go:155-191, trading.go:996-1035).  A *OrderRequest is a
\* sequence: empty for nil, else the one request.
BuildRequest(signal, exchange, currentSize, targetSize, calc) ==
    LET limit == signal.OrderType = "limit" /\ signal.Price # "" IN
    << [Symbol       |-> FormatSymbol(signal.Symbol, exchange),
        Side         |-> calc.side,
        Type         |-> IF limit THEN "LIMIT" ELSE "MARKET",
        Quantity     |-> FormatQuantity(calc.quantity),
        Price        |-> IF limit THEN signal.Price ELSE "",
        PositionSide |-> PositionSideOf(targetSize),
        TimeInForce  |-> "GTC",
        ReduceOnly   |-> ReduceOnlyOf(currentSize, targetSize)] >>

\* SignalProcessor.calculateOrderFromSignal (integration.go:137-192).
calculateOrderFromSignal(signal) ==
    LET cur == ParseFloat(signal.PrevMarketPositionSize)
        tgt == ParseFloat(signal.MarketPositionSize)
        calc == CalculateOrderQuantity(cur.v, tgt.v)
    IN
    IF cur.err # Nil
      THEN [req |-> << >>,
            err |-> Errorf("invalid prev_market_position_size", cur.err)]
    ELSE IF tgt.err # Nil
      THEN [req |-> << >>,
            err |-> Errorf("invalid market_position_size", tgt.err)]
    ELSE IF calc.err # Nil
      THEN [req |-> << >>, err |-> calc.err]
    ELSE [req |-> BuildRequest(signal, ToLower(signal.Exchange),
                               cur.v, tgt.v, calc),
          err |-> Nil]

\* err.Error() of an error that is a single plain layer.
ErrorText(err) == IF Len(err) = 1 /\ err[1].kind = "plain" THEN err[1].val
                  ELSE "(other text)"

convertSignalToOrderRequest_NoChangeIsError(signal) ==
    calculateOrderFromSignal([signal EXCEPT !.Exchange = "binance"])

\* TradingService.convertSignalToOrderRequest (trading.go:975-1036).
convertSignalToOrderRequest(signal) ==
    LET prev == ParseFloat(signal.PrevMarketPositionSize)
        tgt == ParseFloat(signal.MarketPositionSize)
        calc == CalculateOrderQuantity(prev.v, tgt.v)
    IN
    IF prev.err # Nil
      THEN [req |-> << >>,
            err |-> Errorf("invalid prev_market_position_size", prev.err)]
    ELSE IF tgt.err # Nil
      THEN [req |-> << >>,
            err |-> Errorf("invalid market_position_size", tgt.err)]
    ELSE IF calc.err # Nil
      THEN IF ErrorText(calc.err) = "no position change required"
             THEN [req |-> << >>, err |-> Nil]
             ELSE [req |-> << >>, err |-> calc.err]
    ELSE [req |-> BuildRequest(signal, "binance", prev.v, tgt.v, calc),
          err |-> Nil]

\* The signals of the model.
Signals ==
    [Symbol : {"", "btcusdt"},
     Exchange : {"", "Binance", "okx"},
     Action : {"", "buy"},
     MarketPositionSize : SizeStrs,
     PrevMarketPositionSize : SizeStrs,
     Leverage : {-1, 0, 10},
     OrderType : {"market", "limit"},
     Price : {"", "51000"}]

\* A signal with every field empty, the idle value of a signal variable.
NoSignal ==
    [Symbol |-> "", Exchange |-> "", Action |-> "",
     MarketPositionSize |-> EmptyStr, PrevMarketPositionSize |-> EmptyStr,
     Leverage |-> 0, OrderType |-> "market", Price |-> ""]

(* The builders applied to a signal: CalculateOrderQuantity on the parsed   *)
(* sizes, and the two request builders.                                     *)
OrderSignals ==
    [Symbol : {"btcusdt"},
     Exchange : {"", "Binance", "okx"},
     Action : {"buy"},
     MarketPositionSize : SizeStrs,
     PrevMarketPositionSize : SizeStrs,
     Leverage : {0},
     OrderType : {"market", "limit"},
     Price : {"", "51000"}]

IdleOrder ==
    oSig = NoSignal /\ oCalc = << >> /\ oReqSP = << >> /\ oReqTS = << >>

InitOrder ==
    oSig \in OrderSignals /\ oCalc = << >> /\ oReqSP = << >> /\ oReqTS = << >>

OCurrent == ParseFloat(oSig.PrevMarketPositionSize)
OTarget  == ParseFloat(oSig.MarketPositionSize)

OCalculate ==
    /\ oCalc = << >>
    /\ OCurrent.err = Nil /\ OTarget.err = Nil
    /\ oCalc' = << CalculateOrderQuantity(OCurrent.v, OTarget.v) >>
    /\ UNCHANGED <<oSig, oReqSP, oReqTS, notOrder>>

OBuildSP ==
    /\ oReqSP = << >>
    /\ oReqSP' = << calculateOrderFromSignal(oSig) >>
    /\ UNCHANGED <<oSig, oCalc, oReqTS, notOrder>>

OBuildTS ==
    /\ oReqTS = << >>
    /\ oReqTS' = << convertSignalToOrderRequest(oSig) >>
    /\ UNCHANGED <<oSig, oCalc, oReqSP, notOrder>>

-----------------------------------------------------------------------------
(***************************************************************************)
(* The Manager's registry and the connectors.  A connector is a number     *)
(* 1..MaxConns given out in order of creation; the registry maps a name to *)
(* a connector or to 0.  IsConnected() of a connector is its `connected`   *)
(* flag (binance/client.go:427-436).                                       *)
(***************************************************************************)
MaxConns == 3

Names   == {"binance", "bitget", "okx"}
ConnIds == 1 .. MaxConns

\* Manager.GetBroker (lines 66-76).
GetBroker(name) ==
    IF name \in Names /\ brokers[name] # 0
      THEN [broker |-> brokers[name], err |-> Nil]
      ELSE [broker |-> 0, err |-> PlainErr("broker not found")]

NoBrokers == [n \in Names |-> 0]

IdleMgr ==
    /\ brokers = NoBrokers
    /\ connected = [c \in ConnIds |-> FALSE]
    /\ nConns = 0 /\ mRet = Nil
    /\ mClosed = [c \in ConnIds |-> 0] /\ mFailed = {}
    /\ mOp = "" /\ mBefore = NoBrokers

NoneClosed == [c \in ConnIds |-> 0]

\* The connectors the registry holds.
RegisteredConns == {brokers[n] : n \in Names} \ {0}

\* The flags after Close() ran on the connectors of `closed`: Close leaves
\* a connector not connected (binance/client.go:432-436), also a Close of
\* another Broker implementation that reports a failure.
AfterClose(closed) ==
    [c \in ConnIds |-> IF c \in closed THEN FALSE ELSE connected[c]]

\* The names under which the map reg holds connector c.
NamesOf(reg, c) == {n \in Names : reg[n] = c}

CloseAll_StopAtFirstFailure(reg, failed) ==
    [c \in ConnIds |->
        IF failed = {} \/ c \in failed THEN Cardinality(NamesOf(reg, c))
        ELSE 0]

\* Lines 297-302 of Manager.Close: Close() on the broker of every entry of
\* the map, whether an earlier Close failed or not.  The result is the
\* number of Close() invocations on each connector.
CloseAll(reg, failed) ==
    [c \in ConnIds |-> Cardinality(NamesOf(reg, c))]

\* Whether a mutation of the registry or of a connector runs beside an
\* ExecuteOnAllBrokers call that is under way.
FanRunning == ePc \in {"loop", "call"}

RLockHeld_UntilReturn == ePc \in {"locked", "loop", "call"}

\* ExecuteOnAllBrokers holds m.mutex for reading from RLock (line 147) to
\* RUnlock (line 151); TestConnections holds it from RLock (line 115) to
\* the deferred RUnlock that runs as it returns (line 116); the other
\* Manager methods of the model hold it within one step only.
RLockHeld == ePc = "locked" \/ tPc = "ranging"

\* Manager.AddBroker (lines 32-43) with a non-nil broker: a newly created
\* connector, connected or not, is stored under name (an entry already there
\* is overwritten).  Every caller of the repository hands over a connector
\* it has just created (line 105), so no connector is held under two names.
MAddBroker ==
    /\ ePc # "done" /\ ~RLockHeld
    /\ nConns < MaxConns
    /\ \E name \in Names, up \in BOOLEAN :
         /\ nConns' = nConns + 1
         /\ connected' = [connected EXCEPT ![nConns + 1] = up]
         /\ brokers' = [brokers EXCEPT ![name] = nConns + 1]
    /\ mRet' = Nil
    /\ mClosed' = NoneClosed /\ mFailed' = {}
    /\ mOp' = "" /\ mBefore' = NoBrokers
    /\ eQuiet' = (eQuiet /\ ~FanRunning)
    /\ UNCHANGED <<ePc, eSnap, eTodo, eCur, eResults, eSeen, eCalls, eOpErr,
                   notMgr>>

\* Manager.AddBroker with a nil broker (lines 36-38).
MAddNilBroker ==
    /\ ePc # "done" /\ ~RLockHeld
    /\ mRet' = PlainErr("broker cannot be nil")
    /\ mClosed' = NoneClosed /\ mFailed' = {}
    /\ mOp' = "" /\ mBefore' = NoBrokers
    /\ UNCHANGED <<brokers, connected, nConns, fanVars, notMgr>>

\* Manager.RemoveBroker (lines 46-63): Close the connector, delete the
\* entry.
MRemoveBroker ==
    /\ ePc # "done" /\ ~RLockHeld
    /\ mOp' = "" /\ mBefore' = NoBrokers
    /\ \E name \in Names :
         IF brokers[name] = 0
           THEN /\ mRet' = PlainErr("broker not found")
                /\ mClosed' = NoneClosed /\ mFailed' = {}
                /\ UNCHANGED <<brokers, connected, eQuiet>>
           ELSE /\ connected' = AfterClose({brokers[name]})
                /\ mClosed' = NoneClosed /\ mFailed' = {}
                /\ brokers' = [brokers EXCEPT ![name] = 0]
                /\ mRet' = Nil
                /\ eQuiet' = (eQuiet /\ ~FanRunning)
    /\ UNCHANGED <<nConns, ePc, eSnap, eTodo, eCur, eResults, eSeen, eCalls,
                   eOpErr, notMgr>>

\* Manager.Close (lines 293-312): Close every connector, clear the map;
\* an error when some Close failed.
MClose ==
    /\ ePc # "done" /\ ~RLockHeld
    /\ \E failed \in SUBSET RegisteredConns :
         /\ mClosed' = CloseAll(brokers, failed)
         /\ mFailed' = {c \in failed : mClosed'[c] > 0}
         /\ connected' = AfterClose({c \in ConnIds : mClosed'[c] > 0})
         /\ mRet' = IF mFailed' # {}
                      THEN PlainErr("errors closing brokers")
                      ELSE Nil
    /\ brokers' = NoBrokers
    /\ mOp' = "Close" /\ mBefore' = brokers
    /\ eQuiet' = (eQuiet /\ ~FanRunning)
    /\ UNCHANGED <<nConns, ePc, eSnap, eTodo, eCur, eResults, eSeen, eCalls,
                   eOpErr, notMgr>>

-----------------------------------------------------------------------------
(***************************************************************************)
(* Manager.AddBroker and Manager.RemoveBroker as functions of the registry *)
(* and their arguments, and calls of them that record their arguments.     *)
(* A broker argument is 0 for nil, else a connector.                       *)
(***************************************************************************)
NilBroker_Never(broker) == FALSE

\* The test `broker == nil` (line 36).
NilBroker(broker) == broker = 0

\* AddBroker (lines 32-43): the registry and the error it returns.
AddBroker(reg, name, broker) ==
    IF NilBroker(broker)
      THEN [reg |-> reg, err |-> PlainErr("broker cannot be nil")]
      ELSE [reg |-> [reg EXCEPT ![name] = broker], err |-> Nil]

\* RemoveBroker (lines 46-63): the registry, the connectors it called
\* Close() on and the error it returns.
RemoveBroker(reg, name) ==
    IF reg[name] = 0
      THEN [reg |-> reg, closed |-> {}, err |-> PlainErr("broker not found")]
      ELSE [reg |-> [reg EXCEPT ![name] = 0], closed |-> {reg[name]},
            err |-> Nil]

\* The record of a call.
CallRecord(op, name, broker) ==
    << [op |-> op, name |-> name, broker |-> broker, before |-> brokers,
        flags |-> connected] >>

\* m.AddBroker(name, broker) with nil or with a connector just created,
\* connected or not.
GAddBroker ==
    /\ \E name \in Names, fresh \in BOOLEAN, up \in BOOLEAN :
         LET broker == IF fresh THEN nConns + 1 ELSE 0
             out    == AddBroker(brokers, name, broker)
         IN  /\ fresh => nConns < MaxConns
             /\ ~fresh => ~up
             /\ nConns' = IF fresh THEN nConns + 1 ELSE nConns
             /\ connected' = IF fresh
                               THEN [connected EXCEPT ![nConns + 1] = up]
                               ELSE connected
             /\ brokers' = out.reg /\ mRet' = out.err
             /\ gCall' = CallRecord("AddBroker", name, broker)
    /\ UNCHANGED <<mClosed, mFailed, mOp, mBefore, notReg>>

\* m.RemoveBroker(name).
GRemoveBroker ==
    /\ \E name \in Names :
         LET out == RemoveBroker(brokers, name)
         IN  /\ brokers' = out.reg /\ mRet' = out.err
             /\ connected' = AfterClose(out.closed)
             /\ gCall' = CallRecord("RemoveBroker", name, 0)
    /\ UNCHANGED <<nConns, mClosed, mFailed, mOp, mBefore, notReg>>

-----------------------------------------------------------------------------
(***************************************************************************)
(* Manager.InitializeBroker (lines 92-111).  Create looks the name up in   *)
(* the package-level factory Registry (binance/client_test.go:272-287),    *)
(* where only the Binance connector registers itself                       *)
(* (binance/client.go:637-639); Initialize of the new connector succeeds   *)
(* or fails; AddBroker stores it.  Calls follow one another; the other     *)
(* Manager methods may run between the steps of a call.                    *)
(***************************************************************************)
Registry == {"binance"}

InitializeErrors ==
    {Sentinel("ErrInvalidCredentials"),
     Errorf("failed to connect to Binance", Sentinel("ErrNetworkError"))}

IdleInit ==
    /\ ibPc = "idle" /\ ibName = "" /\ ibConn = 0
    /\ ibInitErr = Nil /\ ibAdded = FALSE /\ ibRet = Nil


\* Create (binance/client_test.go:281-287) and lines 94-97.
IBCreate ==
    /\ ibPc \in {"idle", "done"}
    /\ \E name \in Names :
         /\ ibName' = name
         /\ IF name \notin Registry
              THEN /\ ibRet' = Errorf("failed to create broker",
                                      Sentinel("ErrBrokerNotFound"))
                   /\ ibPc' = "done" /\ ibConn' = 0
                   /\ UNCHANGED <<nConns, connected>>
              ELSE /\ nConns < MaxConns
                   /\ nConns' = nConns + 1
                   /\ connected' = [connected EXCEPT ![nConns + 1] = FALSE]
                   /\ ibConn' = nConns + 1
                   /\ ibPc' = "created" /\ ibRet' = Nil
    /\ ibInitErr' = Nil /\ ibAdded' = FALSE
    /\ UNCHANGED <<brokers, mRet, mClosed, mFailed, mOp, mBefore, fanVars,
                   notInit>>

InitializeProceeds_Always(err) == TRUE

\* Line 100: whether the call goes on to AddBroker after Initialize
\* returned err.
InitializeProceeds(err) == err = Nil

\* Lines 99-102: broker.Initialize(ctx, credentials).
IBInitialize ==
    /\ ibPc = "created"
    /\ \E err \in {Nil} \cup InitializeErrors :
         /\ ibInitErr' = err
         /\ connected' = [connected EXCEPT ![ibConn] = (err = Nil)]
         /\ IF InitializeProceeds(err)
              THEN ibPc' = "initialized" /\ UNCHANGED ibRet
              ELSE /\ ibPc' = "done"
                   /\ ibRet' = Errorf("failed to initialize broker", err)
    /\ UNCHANGED <<ibName, ibConn, ibAdded, brokers, nConns, mRet, mClosed,
                   mFailed, mOp, mBefore, fanVars, notInit>>

\* Lines 104-110: m.AddBroker(name, broker) with the non-nil connector.
IBAdd ==
    /\ ibPc = "initialized" /\ ~RLockHeld
    /\ brokers' = [brokers EXCEPT ![ibName] = ibConn]
    /\ mRet' = Nil /\ mClosed' = NoneClosed /\ mFailed' = {}
    /\ mOp' = "" /\ mBefore' = NoBrokers
    /\ ibAdded' = TRUE /\ ibRet' = Nil /\ ibPc' = "done"
    /\ eQuiet' = (eQuiet /\ ~FanRunning)
    /\ UNCHANGED <<ibName, ibConn, ibInitErr, connected, nConns, ePc, eSnap,
                   eTodo, eCur, eResults, eSeen, eCalls, eOpErr, notInit>>

-----------------------------------------------------------------------------
(***************************************************************************)
(* The Binance connector (binance/client.go, binance/futures.go): its      *)
(* fields credentials, client and connected, and its methods called one    *)
(* after another by one caller.  A *Credentials is a sequence: << >> for   *)
(* nil, else <<[APIKey, SecretKey]>>.  The liveness probe and the other    *)
(* SDK requests succeed or fail as the exchange decides.                   *)
(***************************************************************************)
NoCredentials == << >>

CredentialInputs ==
    {NoCredentials}
        \cup {<<k>> : k \in [APIKey : {"", "key1", "key2"},
                             SecretKey : {"", "secret"}]}

\* The operations that start with the c.connected check, themselves or in
\* the method they delegate to at once (GetBalance, GetPosition and the
\* three *Futures* aliases).
ClientOps ==
    {"GetAccountInfo", "GetBalance", "GetPositions", "GetPosition",
     "SetLeverage", "SetMarginType", "PlaceOrder", "GetOrder", "CancelOrder",
     "GetOpenOrders", "GetOrderHistory", "GetSymbolInfo", "GetExchangeInfo",
     "ClosePosition", "CloseAllPositions", "SetPositionMode",
     "GetPositionMode"}

SdkError == PlainErr("sdk request failed")

\* What an operation on a connected client may end with: an SDK request
\* that succeeds or fails, or an argument check that fails before any
\* request (client.go:203-205, 253-255, 299-302).
ConnectedOutcomes ==
    {[sdk |-> TRUE, err |-> Nil],
     [sdk |-> TRUE, err |-> NewBrokerError("ORDER_FAILED", SdkError)],
     [sdk |-> FALSE, err |-> Sentinel("ErrInvalidLeverage")]}

ClientFields == [creds |-> cCreds, client |-> cClient, connected |-> cConnected]

NewClient ==
    /\ cCreds = NoCredentials /\ cClient = << >> /\ cConnected = FALSE
    /\ cOp = "" /\ cArg = NoCredentials /\ cRet = Nil /\ cProbe = "none"
    /\ cSdk = FALSE /\ cClosedSince = FALSE
    /\ cPrev = [creds |-> NoCredentials, client |-> << >>,
                connected |-> FALSE]

\* Bound of the model: the longest signals slice.
MaxBatch == 3

BatchIdx == 1 .. MaxBatch

\* No ProcessMultipleSignals call.
IdleBatch ==
    /\ bSignals = << >> /\ bPc = "idle" /\ bI = 0
    /\ bTask = [i \in BatchIdx |-> "none"] /\ bErr = [i \in BatchIdx |-> << >>]
    /\ bChan = << >> /\ bResults = << >> /\ bRet = << >> /\ bOrder = << >>

\* A ConfigManager that has made no call; its configuration is input.
NoCalls3 == [n \in Names |-> 0]

IdleCfgCalls ==
    /\ kPc = "idle" /\ kOp = "" /\ kArg = "" /\ kTodo = {}
    /\ kAttempts = NoCalls3 /\ kErr = [n \in Names |-> << >>]
    /\ kErrors = << >> /\ kSetErr = [n \in Names |-> Nil]
    /\ kRet = Nil /\ kTouched = {} /\ kBefore = NoBrokers

\* No ConfigManager.
IdleCfg == kCfg = << >> /\ IdleCfgCalls

\* No aggregate helper call.
IdleAgg ==
    /\ aKind = "" /\ aFutures = [c \in ConnIds |-> FALSE]
    /\ aData = NoBrokers /\ aRet = << >>

\* No TestConnections call.
IdleTest ==
    /\ tClient = [c \in ConnIds |-> FALSE] /\ tLink = [c \in ConnIds |-> FALSE]
    /\ tPc = "idle" /\ tTodo = {} /\ tCalls = NoCalls3
    /\ tOut = [n \in Names |-> Nil] /\ tResults = [n \in Names |-> << >>]
    /\ tRet = << >>

\* No order request validated or placed.
IdleVal ==
    /\ vReq = << >> /\ vConnected = FALSE /\ vOp = "" /\ vRet = Nil
    /\ vSubmitted = {} /\ vSdkErr = Nil

\* No signal being tracked.
IdleTrack ==
    /\ tkOrderID = "" /\ tkStatus = "" /\ tkExecutedAt = 0
    /\ tkErrorMessage = "" /\ tkNow = 1 /\ tkCall = << >> /\ tkRet = Nil
    /\ tkSaved = << >>

\* No AddBroker or RemoveBroker call recorded.
IdleReg == gCall = << >>

\* No HealthCheck call.
IdleHealth == hRet = << >>

\* No ClosePosition call.
IdleClose ==
    /\ cpPos = << >> /\ cpConnected = FALSE /\ cpSide = "" /\ cpDone = FALSE
    /\ cpRet = Nil /\ cpOrders = << >> /\ cpAccepted = FALSE

\* No validatePositionChange call.
IdlePos ==
    /\ pvPrev = EmptyStr /\ pvStored = << >> /\ pvLoadErr = Nil
    /\ pvEnhanced = << >> /\ pvOriginal = << >>

IdleExt == IdleInit /\ NewClient /\ IdleBatch /\ IdleCfg /\ IdleAgg /\ IdleTest /\ IdleVal /\ IdleTrack /\ IdleReg /\ IdleHealth /\ IdleClose /\ IdlePos

CredentialsRejected_KeyOnly(credentials) ==
    credentials = NoCredentials \/ credentials[1].APIKey = ""

\* Initialize, lines 40-46: nil credentials, or an empty key or secret.
CredentialsRejected(credentials) ==
    \/ credentials = NoCredentials
    \/ credentials[1].APIKey = "" \/ credentials[1].SecretKey = ""

\* Client.Initialize (client.go:39-59) with TestConnection (62-74).
CInitialize ==
    /\ \E credentials \in CredentialInputs, probeOk \in BOOLEAN :
         /\ cArg' = credentials
         /\ IF CredentialsRejected(credentials)
              THEN /\ cRet' = IF credentials = NoCredentials
                                THEN Sentinel("ErrInvalidCredentials")
                                ELSE NewBrokerError("INVALID_CREDENTIALS",
                                        Sentinel("ErrInvalidCredentials"))
                   /\ cProbe' = "none"
                   /\ UNCHANGED <<cCreds, cClient, cConnected, cClosedSince>>
              ELSE /\ cCreds' = credentials
                   /\ cClient' = credentials
                   /\ cProbe' = IF probeOk THEN "ok" ELSE "fail"
                   /\ IF probeOk
                        THEN /\ cConnected' = TRUE /\ cRet' = Nil
                             /\ cClosedSince' = FALSE
                        ELSE /\ cRet' = Errorf(
                                  "failed to initialize Binance client",
                                  NewBrokerError("CONNECTION_FAILED",
                                                 SdkError))
                             /\ UNCHANGED <<cConnected, cClosedSince>>
    /\ cOp' = "Initialize" /\ cSdk' = FALSE /\ cPrev' = ClientFields
    /\ UNCHANGED notClient

\* Client.TestConnection (client.go:62-74) called by itself.
CTestConnection ==
    /\ IF cClient = << >>
         THEN cRet' = Sentinel("ErrNotConnected") /\ cProbe' = "none"
         ELSE \E probeOk \in BOOLEAN :
                /\ cProbe' = IF probeOk THEN "ok" ELSE "fail"
                /\ cRet' = IF probeOk THEN Nil
                           ELSE NewBrokerError("CONNECTION_FAILED", SdkError)
    /\ cOp' = "TestConnection" /\ cSdk' = FALSE /\ cPrev' = ClientFields
    /\ UNCHANGED <<cCreds, cClient, cConnected, cArg, cClosedSince, notClient>>

RejectsCall_Never(isConnected) == FALSE

\* The guard `if !c.connected` that opens every operation (client.go:78,
\* 154, 199, 221, 249, 295, 318, 341, 365, 389, 409; futures.go:32, 81, 106,
\* 123).
RejectsCall(isConnected) == ~isConnected

\* One of the operations of ClientOps.
COperation ==
    /\ \E op \in ClientOps :
         /\ cOp' = op
         /\ IF RejectsCall(cConnected)
              THEN cRet' = Sentinel("ErrNotConnected") /\ cSdk' = FALSE
              ELSE \E out \in ConnectedOutcomes :
                     cRet' = out.err /\ cSdk' = out.sdk
    /\ cProbe' = "none" /\ cPrev' = ClientFields
    /\ UNCHANGED <<cCreds, cClient, cConnected, cArg, cClosedSince, notClient>>

\* Client.Close (client.go:432-436).
CClose ==
    /\ cConnected' = FALSE /\ cClient' = << >>
    /\ cRet' = Nil /\ cOp' = "Close" /\ cProbe' = "none" /\ cSdk' = FALSE
    /\ cClosedSince' = TRUE /\ cPrev' = ClientFields
    /\ UNCHANGED <<cCreds, cArg, notClient>>

-----------------------------------------------------------------------------
(***************************************************************************)
(* Manager.ExecuteOnAllBrokers (lines 146-167), one call.  The registry    *)
(* is copied, then the copy is ranged over in any order (Go's map order);  *)
(* IsConnected and the operation callback are separate steps.  The         *)
(* callback returns nil or an error.                                       *)
(***************************************************************************)
OpErrors == {NewBrokerError("POSITIONS_FAILED", PlainErr("other"))}

NotConnectedErr == PlainErr("broker is not connected")

IdleFan ==
    /\ ePc = "idle"
    /\ eSnap = [n \in Names |-> 0]
    /\ eTodo = {} /\ eCur = ""
    /\ eResults = [n \in Names |-> << >>]
    /\ eSeen = [n \in Names |-> "unvisited"]
    /\ eCalls = [n \in Names |-> 0]
    /\ eOpErr = [n \in Names |-> Nil]
    /\ eQuiet = TRUE

\* Line 147: m.mutex.RLock(); no writer holds the lock between two steps.
EStart ==
    /\ ePc = "idle"
    /\ ePc' = "locked"
    /\ UNCHANGED <<eSnap, eTodo, eCur, eResults, eSeen, eCalls, eOpErr, eQuiet,
                   mgrVars, notMgr>>

\* Lines 148-154: the copy of the registry, RUnlock, the results map.
ESnapshot ==
    /\ ePc = "locked"
    /\ eSnap' = brokers
    /\ eTodo' = {n \in Names : brokers[n] # 0}
    /\ ePc' = "loop"
    /\ eQuiet' = TRUE
    /\ UNCHANGED <<eCur, eResults, eSeen, eCalls, eOpErr, mgrVars, notMgr>>

RestAfterDisconnected_Abort(todo, name) == {}

\* Lines 156-159: after a broker that is not connected the loop continues
\* with the names not yet reached.
RestAfterDisconnected(todo, name) == todo \ {name}

\* Lines 155-159 and 166: the next name of the range, and IsConnected on
\* its broker; the return when the range is exhausted.
ELoop ==
    /\ ePc = "loop"
    /\ IF eTodo = {}
         THEN /\ ePc' = "done"
              /\ UNCHANGED <<eTodo, eCur, eResults, eSeen>>
         ELSE \E name \in eTodo :
                IF ~connected[eSnap[name]]
                  THEN /\ eResults' = [eResults EXCEPT
                                          ![name] = <<NotConnectedErr>>]
                       /\ eSeen' = [eSeen EXCEPT ![name] = "disconnected"]
                       /\ eTodo' = RestAfterDisconnected(eTodo, name)
                       /\ UNCHANGED <<ePc, eCur>>
                  ELSE /\ eSeen' = [eSeen EXCEPT ![name] = "connected"]
                       /\ eTodo' = eTodo \ {name}
                       /\ eCur' = name /\ ePc' = "call"
                       /\ UNCHANGED eResults
    /\ UNCHANGED <<eSnap, eCalls, eOpErr, eQuiet, mgrVars, notMgr>>

\* Lines 161-163: the operation callback on the current broker returned
\* err.
ECallReturns(err) ==
    /\ ePc = "call"
    /\ eCalls' = [eCalls EXCEPT ![eCur] = @ + 1]
    /\ eOpErr' = [eOpErr EXCEPT ![eCur] = err]
    /\ eResults' = IF err # Nil
                     THEN [eResults EXCEPT ![eCur] = <<err>>]
                     ELSE eResults
    /\ ePc' = "loop"
    /\ UNCHANGED <<eSnap, eTodo, eCur, eSeen, eQuiet, mgrVars>>

\* Lines 161-163 with a callback that returns nil or an error.
ECall ==
    /\ \E err \in {Nil} \cup OpErrors : ECallReturns(err)
    /\ UNCHANGED notMgr

\* ---- The aggregate helpers built on ExecuteOnAllBrokers: GetAllPositions
\* (part_000:199-216), CloseAllPositions (219-226), SetLeverageOnAllBrokers
\* (236-240), GetAllAccountInfo (258-275).  The helper of one call is aKind.
AggKinds ==
    {"GetAllPositions", "GetAllAccountInfo", "CloseAllPositions",
     "SetLeverageOnAllBrokers"}

AggQueries == {"GetAllPositions", "GetAllAccountInfo"}

NoFuturesErr == PlainErr("broker does not support futures operations")

\* What the callback of helper kind may return on connector c.
CallbackErrors(kind, c) ==
    IF kind = "CloseAllPositions" /\ ~aFutures[c]
      THEN {NoFuturesErr}
      ELSE {Nil} \cup OpErrors

StoresAnswer_Always(kind, err) == kind \in AggQueries

\* Lines 202-207 and 261-266: the query callbacks store the answer when the
\* connector returned no error; the other two helpers store nothing.
StoresAnswer(kind, err) == kind \in AggQueries /\ err = Nil

\* The callback of the helper on the current broker.
ACall ==
    /\ aKind # "" /\ ePc = "call"
    /\ \E err \in CallbackErrors(aKind, eSnap[eCur]) :
         /\ ECallReturns(err)
         /\ aData' = IF StoresAnswer(aKind, err)
                       THEN [aData EXCEPT ![eCur] = eSnap[eCur]]
                       ELSE aData
    /\ UNCHANGED <<aKind, aFutures, aRet, notAgg>>

\* Lines 215, 221, 237, 274: the helper returns its own map (the queries)
\* or the map ExecuteOnAllBrokers returned.
AReturn ==
    /\ ePc = "done" /\ aKind # "" /\ aRet = << >>
    /\ aRet' = IF aKind \in AggQueries THEN <<aData>> ELSE <<eResults>>
    /\ UNCHANGED <<aKind, aFutures, aData, fanVars, mgrVars, notAgg>>

-----------------------------------------------------------------------------
(***************************************************************************)
(* ConfigManager (config.go): InitializeBrokers (72-100), initializeBroker *)
(* (103-124) with validateCredentials (127-137), Manager.InitializeBroker  *)
(* (part_000:92-111) and applyBrokerSettings (140-164), ReconnectBroker    *)
(* (242-259).  One caller; an iteration of the range loop is one step, in  *)
(* any order of the names (Go's map order).  A configuration is a map from *)
(* names to entries; a name that is no key of Config.Brokers has an entry  *)
(* with present = FALSE.                                                   *)
(***************************************************************************)
NilConfig == << >>

AbsentEntry ==
    [present |-> FALSE, Enabled |-> FALSE, APIKey |-> "", SecretKey |-> "",
     PositionMode |-> ""]

CfgEntries ==
    {AbsentEntry}
      \cup {[present |-> TRUE, Enabled |-> FALSE, APIKey |-> "key1",
             SecretKey |-> "secret", PositionMode |-> ""]}
      \cup {[present |-> TRUE, Enabled |-> TRUE, APIKey |-> k,
             SecretKey |-> "secret", PositionMode |-> ""] : k \in {"", "key1"}}
      \cup {[present |-> TRUE, Enabled |-> TRUE, APIKey |-> "key1",
             SecretKey |-> x, PositionMode |-> "hedge"] : x \in {"", "secret"}}

Configs == {NilConfig} \cup {<<c>> : c \in [Names -> CfgEntries]}

\* What the exchange may answer to the liveness probe of Initialize and to
\* SetPositionMode (binance/futures.go:105-119).
ConnectErrors == InitializeErrors \ {Sentinel("ErrInvalidCredentials")}

PositionModeErrors ==
    {NewBrokerError("POSITION_MODE_FAILED", PlainErr("other"))}

\* validateCredentials (lines 127-137).
validateCredentials(creds) ==
    IF creds.APIKey = "" THEN PlainErr("API key is required")
    ELSE IF creds.SecretKey = "" THEN PlainErr("secret key is required")
    ELSE Nil

\* applyBrokerSettings (lines 140-164) on the connector just registered,
\* which is a FuturesBroker: SetPositionMode is called when a position mode
\* is configured and returns modeErr.
applyBrokerSettings(entry, modeErr) ==
    IF entry.PositionMode # "" /\ modeErr # Nil
      THEN Errorf("failed to set position mode", modeErr)
      ELSE Nil

AfterSettings_Fatal(settingsErr) == settingsErr

\* Lines 118-123: what initializeBroker returns once Manager.InitializeBroker
\* succeeded and applyBrokerSettings returned settingsErr.
AfterSettings(settingsErr) == Nil

\* initializeBroker (lines 103-124) on registry reg, flags conn and n
\* connectors created so far: the registry, flags and count it leaves, the
\* error it returns, what applyBrokerSettings returned and the connectors
\* it called a method of.
initializeBroker(reg, conn, n, name, entry, initErr, modeErr) ==
    LET same == [reg |-> reg, conn |-> conn, n |-> n, settings |-> Nil,
                 touched |-> {}]
        new  == n + 1
    IN
    IF validateCredentials(entry) # Nil
      THEN same @@
           [err |-> Errorf("invalid credentials", validateCredentials(entry))]
    ELSE IF name \notin Registry
      THEN same @@ [err |-> Errorf("failed to create broker",
                                   Sentinel("ErrBrokerNotFound"))]
    ELSE IF initErr # Nil
      THEN [reg |-> reg, conn |-> [conn EXCEPT ![new] = FALSE], n |-> new,
            settings |-> Nil, touched |-> {new},
            err |-> Errorf("failed to initialize broker", initErr)]
    ELSE [reg |-> [reg EXCEPT ![name] = new],
          conn |-> [conn EXCEPT ![new] = TRUE], n |-> new,
          settings |-> applyBrokerSettings(entry, modeErr),
          touched |-> {new},
          err |-> AfterSettings(applyBrokerSettings(entry, modeErr))]

\* The connector a call of initializeBroker would create, if any.
NeedsConnector(name, entry) ==
    validateCredentials(entry) = Nil /\ name \in Registry

\* InitializeBrokers, lines 73-78: the nil check and the start of the range.
KBegin ==
    /\ kPc \in {"idle", "done"}
    /\ kOp' = "InitializeBrokers" /\ kArg' = ""
    /\ kAttempts' = NoCalls3 /\ kErr' = [n \in Names |-> << >>]
    /\ kErrors' = << >> /\ kSetErr' = [n \in Names |-> Nil]
    /\ kTouched' = {} /\ kBefore' = brokers
    /\ IF kCfg = NilConfig
         THEN /\ kRet' = PlainErr("configuration is nil")
              /\ kPc' = "done" /\ kTodo' = {}
         ELSE /\ kRet' = Nil /\ kPc' = "ranging"
              /\ kTodo' = {n \in Names : kCfg[1][n].present}
    /\ UNCHANGED <<kCfg, mgrVars, fanVars, notCfg>>

RestAfterFailure_Abort(todo, name) == {}

\* Lines 87-91: after a broker that failed to initialize the loop continues
\* with the names not yet reached.
RestAfterFailure(todo, name) == todo \ {name}

\* Lines 79-93: one iteration of the range loop.
KIterate ==
    /\ kPc = "ranging" /\ kTodo # {}
    /\ \E name \in kTodo :
         LET entry == kCfg[1][name] IN
         IF ~entry.Enabled
           THEN /\ kTodo' = kTodo \ {name}
                /\ UNCHANGED <<kAttempts, kErr, kErrors, kSetErr, kTouched,
                               brokers, connected, nConns>>
           ELSE /\ NeedsConnector(name, entry) => nConns < MaxConns
                /\ \E initErr \in {Nil} \cup ConnectErrors,
                      modeErr \in {Nil} \cup PositionModeErrors :
                     LET out == initializeBroker(brokers, connected, nConns,
                                                 name, entry, initErr,
                                                 modeErr)
                     IN
                     /\ brokers' = out.reg /\ connected' = out.conn
                     /\ nConns' = out.n
                     /\ kAttempts' = [kAttempts EXCEPT ![name] = @ + 1]
                     /\ kErr' = [kErr EXCEPT ![name] = <<out.err>>]
                     /\ kSetErr' = [kSetErr EXCEPT ![name] = out.settings]
                     /\ kTouched' = kTouched \cup out.touched
                     /\ IF out.err # Nil
                          THEN /\ kErrors' = Append(kErrors, name)
                               /\ kTodo' = RestAfterFailure(kTodo, name)
                          ELSE /\ kTodo' = kTodo \ {name}
                               /\ UNCHANGED kErrors
    /\ UNCHANGED <<kCfg, kPc, kOp, kArg, kRet, kBefore, mRet, mClosed, mFailed,
                   mOp, mBefore, fanVars, notCfg>>

\* Lines 95-99.
KFinish ==
    /\ kPc = "ranging" /\ kTodo = {}
    /\ kRet' = IF Len(kErrors) > 0
                 THEN PlainErr("failed to initialize some brokers")
                 ELSE Nil
    /\ kPc' = "done"
    /\ UNCHANGED <<kCfg, kOp, kArg, kTodo, kAttempts, kErr, kErrors, kSetErr,
                   kTouched, kBefore, mgrVars, fanVars, notCfg>>

ReconnectRefused_AbsentOnly(entry) == ~entry.present

\* ReconnectBroker, lines 243-250: no configuration of that name, or a
\* disabled one.
ReconnectRefused(entry) == ~entry.present \/ ~entry.Enabled

\* ReconnectBroker (lines 242-259) of a ConfigManager that has a
\* configuration: GetBrokerConfig, the Enabled check, Manager.RemoveBroker
\* (part_000:46-63), whose error is only logged, and initializeBroker.
KReconnect ==
    /\ kPc \in {"idle", "done"} /\ kCfg # NilConfig
    /\ \E name \in Names :
         LET entry == kCfg[1][name]
             old   == brokers[name]
             conn1 == IF old = 0 THEN connected ELSE AfterClose({old})
             reg1  == [brokers EXCEPT ![name] = 0]
         IN
         /\ kArg' = name
         /\ IF ReconnectRefused(entry)
              THEN /\ kRet' = IF ~entry.present
                                THEN PlainErr("broker not found in configuration")
                                ELSE PlainErr("broker is disabled")
                   /\ kAttempts' = NoCalls3 /\ kTouched' = {}
                   /\ kErr' = [n \in Names |-> << >>]
                   /\ kSetErr' = [n \in Names |-> Nil]
                   /\ UNCHANGED <<brokers, connected, nConns>>
              ELSE /\ NeedsConnector(name, entry) => nConns < MaxConns
                   /\ \E initErr \in {Nil} \cup ConnectErrors,
                         modeErr \in {Nil} \cup PositionModeErrors :
                        LET out == initializeBroker(reg1, conn1, nConns, name,
                                                    entry, initErr, modeErr)
                        IN
                        /\ brokers' = out.reg /\ connected' = out.conn
                        /\ nConns' = out.n
                        /\ kRet' = out.err
                        /\ kAttempts' = [NoCalls3 EXCEPT ![name] = 1]
                        /\ kErr' = [[n \in Names |-> << >>]
                                      EXCEPT ![name] = <<out.err>>]
                        /\ kSetErr' = [[n \in Names |-> Nil]
                                         EXCEPT ![name] = out.settings]
                        /\ kTouched' = out.touched \cup ({old} \ {0})
    /\ kOp' = "ReconnectBroker" /\ kPc' = "done" /\ kBefore' = brokers
    /\ kErrors' = << >> /\ kTodo' = {}
    /\ UNCHANGED <<kCfg, mRet, mClosed, mFailed, mOp, mBefore, fanVars, notCfg>>

-----------------------------------------------------------------------------
(***************************************************************************)
(* Manager.TestConnections (part_000:114-129), one call.  The read lock is *)
(* held from the first line to the return, so the registry does not change *)
(* during the call; an iteration of the range loop is one step.            *)
(***************************************************************************)
\* Client.TestConnection (binance/client.go:62-74) on connector c.
TestConnection(c) ==
    IF ~tClient[c] THEN Sentinel("ErrNotConnected")
    ELSE IF ~tLink[c] THEN NewBrokerError("CONNECTION_FAILED", SdkError)
    ELSE Nil

\* Lines 115-119.
TStart ==
    /\ tPc = "idle"
    /\ tTodo' = {n \in Names : brokers[n] # 0}
    /\ tPc' = "ranging"
    /\ UNCHANGED <<tClient, tLink, tCalls, tOut, tResults, tRet, notTest>>

RecordsEntry_Always(err) == TRUE

\* Lines 120-121: an entry is written when TestConnection returned an error.
RecordsEntry(err) == err # Nil

\* Lines 119-125: one iteration.
TIterate ==
    /\ tPc = "ranging" /\ tTodo # {}
    /\ \E name \in tTodo :
         LET err == TestConnection(brokers[name]) IN
         /\ tCalls' = [tCalls EXCEPT ![name] = @ + 1]
         /\ tOut' = [tOut EXCEPT ![name] = err]
         /\ tResults' = IF RecordsEntry(err)
                          THEN [tResults EXCEPT ![name] = <<err>>]
                          ELSE tResults
         /\ tTodo' = tTodo \ {name}
    /\ UNCHANGED <<tClient, tLink, tPc, tRet, notTest>>

\* Line 128.
TReturn ==
    /\ tPc = "ranging" /\ tTodo = {}
    /\ tRet' = <<tResults>> /\ tPc' = "done"
    /\ UNCHANGED <<tClient, tLink, tTodo, tCalls, tOut, tResults, notTest>>

-----------------------------------------------------------------------------
(***************************************************************************)
(* Manager.HealthCheck (lines 279-291): TestConnections (the steps above), *)
(* then, under a read lock of its own, one entry for every name the        *)
(* registry holds by then.                                                 *)
(***************************************************************************)
\* Line 285: results[name] = errors[name] == nil; a name without an entry
\* in the errors map reads as nil.
Healthy(errors, name) == errors[name] = << >>

\* Lines 283-290.
HRange ==
    /\ tPc = "done" /\ hRet = << >>
    /\ hRet' = << [n \in Names |->
                     IF brokers[n] # 0 THEN <<Healthy(tRet[1], n)>>
                     ELSE << >>] >>
    /\ UNCHANGED notHealth

\* AddBroker of a connector that reports connected only with its SDK client
\* set.
HAddBroker ==
    /\ MAddBroker
    /\ connected'[nConns'] => tClient[nConns']

-----------------------------------------------------------------------------
(***************************************************************************)
(* broker.ValidateOrderRequest (utils.go:86-117) and the start of the      *)
(* Binance connector's PlaceOrder (binance/client.go:247-292).  A quantity *)
(* or price string is a number, the empty string, text ParseFloat rejects, *)
(* or a spelling of NaN or of an infinity, which ParseFloat accepts.       *)
(***************************************************************************)
QtyStrs == {NumStr(v) : v \in {-1, 0, 1}} \cup
           {EmptyStr, BadStr, NaNStr, InfStr(1), InfStr(-1)}

OrderSymbols == {"", "BTCUSDT"}
OrderSides   == {"BUY", "SELL", ""}
OrderTypes   == {"MARKET", "LIMIT", "STOP"}

OrderRequests ==
    [Symbol : OrderSymbols, Side : OrderSides, Type : OrderTypes,
     Quantity : QtyStrs, Price : QtyStrs]

\* The float64 comparison f <= 0: false for NaN, decided by the sign for an
\* infinity.
LeqZero(f) ==
    CASE f.class = "nan" -> FALSE
      [] f.class = "inf" -> f.v < 0
      [] OTHER -> f.v <= 0

\* ParseQuantity (utils.go:38-53) and ParsePrice (utils.go:56-71): the
\* error, Nil when the string is accepted.
ParsePositive(str, sentinel) ==
    IF str = EmptyStr THEN Sentinel(sentinel)
    ELSE LET f == ParseFloat(str)
         IN  IF f.err # Nil THEN Errorf("%w: %s", Sentinel(sentinel))
             ELSE IF LeqZero(f)
                    THEN Errorf("must be positive", Sentinel(sentinel))
                    ELSE Nil

ParseQuantity(quantity) == ParsePositive(quantity, "ErrInvalidQuantity")
ParsePrice(price)       == ParsePositive(price, "ErrInvalidPrice")

\* ValidateOrderRequest (utils.go:86-117); req is << >> for a nil pointer.
ValidateOrderRequest(req) ==
    IF req = << >> THEN PlainErr("order request is nil")
    ELSE IF req[1].Symbol = "" THEN Sentinel("ErrInvalidSymbol")
    ELSE IF req[1].Side \notin {"BUY", "SELL"}
           THEN Sentinel("ErrInvalidOrderSide")
    ELSE IF req[1].Type \notin {"MARKET", "LIMIT"}
           THEN Sentinel("ErrInvalidOrderType")
    ELSE IF ParseQuantity(req[1].Quantity) # Nil
           THEN ParseQuantity(req[1].Quantity)
    ELSE IF req[1].Type = "LIMIT" /\ req[1].Price = EmptyStr
           THEN Errorf("price required for limit orders",
                       Sentinel("ErrInvalidPrice"))
    ELSE IF req[1].Type = "LIMIT" /\ ParsePrice(req[1].Price) # Nil
           THEN ParsePrice(req[1].Price)
    ELSE Nil

\* The errors Do of the SDK's order service returns: an exchange answer
\* (*common.APIError with the exchange's code), an error of the HTTP
\* client, or the context's.  None is a value of package broker.
SdkTransient ==
    {PlainErr("APIError -1003: too many requests"),
     PlainErr("APIError -1001: internal error; unable to process"),
     PlainErr("net/http: connection reset by peer"),
     << [kind |-> "ctx", val |-> "context deadline exceeded"] >>}

SdkFailures ==
    SdkTransient \cup {SdkError, PlainErr("APIError -2019: margin is insufficient")}

\* Lines 285-290 of PlaceOrder: what it returns once service.Do answered.
PlaceOrderResult(sdkErr) ==
    IF sdkErr # Nil THEN NewBrokerError("ORDER_FAILED", sdkErr) ELSE Nil

\* broker.ValidateOrderRequest(vReq), called by itself.
VValidate ==
    /\ vOp = ""
    /\ vOp' = "ValidateOrderRequest" /\ vRet' = ValidateOrderRequest(vReq)
    /\ UNCHANGED <<vReq, vConnected, vSubmitted, vSdkErr, notVal>>

\* Client.PlaceOrder(ctx, vReq) (binance/client.go:247-292): the connected
\* guard, the validation, then the order service is built from the
\* request and Do sends it; the exchange answers or fails.
VPlaceOrder ==
    /\ vOp = ""
    /\ vOp' = "PlaceOrder"
    /\ IF ~vConnected
         THEN /\ vRet' = Sentinel("ErrNotConnected")
              /\ UNCHANGED <<vSubmitted, vSdkErr>>
         ELSE IF ValidateOrderRequest(vReq) # Nil
                THEN /\ vRet' = ValidateOrderRequest(vReq)
                     /\ UNCHANGED <<vSubmitted, vSdkErr>>
                ELSE /\ vSubmitted' = vSubmitted \cup {vReq[1]}
                     /\ vSdkErr' \in {Nil} \cup SdkFailures
                     /\ vRet' = PlaceOrderResult(vSdkErr')
    /\ UNCHANGED <<vReq, vConnected, notVal>>

-----------------------------------------------------------------------------
(***************************************************************************)
(* TradingService.trackBinanceOrderStatus (trading.go:1074-1117) called    *)
(* again and again on one signal, while time passes.  Each call is one     *)
(* step: GetOrder answers with an order in some status or fails, the       *)
(* signal is updated in memory, and Save stores it or fails.               *)
(***************************************************************************)
MaxClock == 3

OrderStatuses ==
    {"NEW", "PARTIALLY_FILLED", "FILLED", "CANCELED", "PENDING_CANCEL",
     "REJECTED", "EXPIRED"}

GetOrderErrors ==
    {Sentinel("ErrNotConnected"), NewBrokerError("ORDER_NOT_FOUND", SdkError)}

SaveError == PlainErr("database error")

\* What GetOrder can answer: an order in some status, or an error.
GetOrderAnswers ==
    [status : OrderStatuses, err : {Nil}] \cup
    [status : {""}, err : GetOrderErrors]

\* The switch on order.Status (trading.go:1088-1102).
SignalStatusOf(orderStatus) ==
    CASE orderStatus = "FILLED" -> "filled"
      [] orderStatus \in {"CANCELED", "REJECTED", "EXPIRED"} -> "failed"
      [] orderStatus = "PARTIALLY_FILLED" -> "partially_filled"
      [] OTHER -> "pending"

ExecutedAtUnset_Always(executedAt) == TRUE

\* The test `signal.ExecutedAt == nil` (trading.go:1091).
ExecutedAtUnset(executedAt) == executedAt = 0

\* One call of trackBinanceOrderStatus.
TKCall ==
    /\ \E answer \in GetOrderAnswers, saveOk \in BOOLEAN :
         /\ tkCall' = << [order   |-> IF tkOrderID = "" THEN "" ELSE answer.status,
                          getErr  |-> IF tkOrderID = "" THEN Nil ELSE answer.err,
                          saved   |-> tkOrderID # "" /\ answer.err = Nil /\ saveOk,
                          Status  |-> tkStatus,
                          ExecutedAt |-> tkExecutedAt,
                          at      |-> tkNow] >>
         /\ IF tkOrderID = ""
              THEN /\ tkRet' = PlainErr("no order ID to track")
                   /\ UNCHANGED <<tkStatus, tkExecutedAt, tkErrorMessage, tkSaved>>
              ELSE IF answer.err # Nil
              THEN /\ tkRet' = Errorf("failed to get order status", answer.err)
                   /\ UNCHANGED <<tkStatus, tkExecutedAt, tkErrorMessage, tkSaved>>
              ELSE /\ tkStatus' = SignalStatusOf(answer.status)
                   /\ tkExecutedAt' =
                        IF answer.status = "FILLED" /\ ExecutedAtUnset(tkExecutedAt)
                          THEN tkNow ELSE tkExecutedAt
                   /\ tkErrorMessage' =
                        IF answer.status \in {"CANCELED", "REJECTED", "EXPIRED"}
                          THEN answer.status ELSE tkErrorMessage
                   /\ IF saveOk
                        THEN /\ tkSaved' = <<tkStatus', tkExecutedAt'>>
                             /\ tkRet' = Nil
                        ELSE /\ tkRet' = Errorf("failed to update signal status",
                                                SaveError)
                             /\ UNCHANGED tkSaved
    /\ UNCHANGED <<tkOrderID, tkNow, notTrack>>

\* Time passes between two calls.
TKTick ==
    /\ tkNow < MaxClock
    /\ tkNow' = tkNow + 1
    /\ UNCHANGED <<tkOrderID, tkStatus, tkExecutedAt, tkErrorMessage, tkCall,
                   tkRet, tkSaved, notTrack>>

-----------------------------------------------------------------------------
(***************************************************************************)
(* Client.ClosePosition (binance/futures.go:31-77), one call.  The         *)
(* exchange reports position sizes in whole ticks; a size is positive for  *)
(* a long position, negative for a short one.                              *)
(***************************************************************************)
MaxTicks == 3

PositionSizes ==
    {NumStr(t * UnitsPerTick) : t \in -MaxTicks .. MaxTicks}

\* Lines 51-70: the close order for a parsed position size other than zero.
CloseRequest(positionSize, positionSide) ==
    [Symbol       |-> "BTCUSDT",
     Side         |-> IF positionSize > 0 THEN "SELL" ELSE "BUY",
     Type         |-> "MARKET",
     Quantity     |-> FormatQuantity(IF positionSize > 0 THEN positionSize
                                     ELSE -positionSize),
     Price        |-> EmptyStr,
     PositionSide |-> positionSide,
     ReduceOnly   |-> TRUE]

\* Line 43: the error of broker.ParseQuantity(position.Size).
PositionSizeError(size) == ParseQuantity(size)

\* ClosePosition(ctx, "BTCUSDT", cpSide).
ZClosePosition ==
    /\ ~cpDone
    /\ cpDone' = TRUE
    /\ \E getErr \in {Nil, SdkError}, sdkErr \in {Nil} \cup SdkFailures :
         IF ~cpConnected
           THEN /\ cpRet' = Sentinel("ErrNotConnected")
                /\ UNCHANGED <<cpOrders, cpAccepted>>
         ELSE IF getErr # Nil
           THEN /\ cpRet' = Errorf("failed to get position",
                                   NewBrokerError("POSITIONS_FAILED", getErr))
                /\ UNCHANGED <<cpOrders, cpAccepted>>
         ELSE IF cpPos = << >>
           THEN /\ cpRet' = Errorf("failed to get position",
                                   Sentinel("ErrPositionNotFound"))
                /\ UNCHANGED <<cpOrders, cpAccepted>>
         ELSE IF PositionSizeError(cpPos[1]) # Nil
           THEN /\ cpRet' = Errorf("invalid position size",
                                   PositionSizeError(cpPos[1]))
                /\ UNCHANGED <<cpOrders, cpAccepted>>
         ELSE IF ParseFloat(cpPos[1]).v = 0
           THEN /\ cpRet' = Nil
                /\ UNCHANGED <<cpOrders, cpAccepted>>
         ELSE LET closeReq == CloseRequest(ParseFloat(cpPos[1]).v, cpSide)
                  invalid  == ValidateOrderRequest(<<closeReq>>)
              IN  IF invalid # Nil
                    THEN /\ cpRet' = NewBrokerError("CLOSE_POSITION_FAILED",
                                                    invalid)
                         /\ UNCHANGED <<cpOrders, cpAccepted>>
                    ELSE /\ cpOrders' = Append(cpOrders, closeReq)
                         /\ cpAccepted' = (sdkErr = Nil)
                         /\ cpRet' =
                              IF sdkErr # Nil
                                THEN NewBrokerError("CLOSE_POSITION_FAILED",
                                                    PlaceOrderResult(sdkErr))
                                ELSE Nil
    /\ UNCHANGED <<cpPos, cpConnected, cpSide, notClose>>

\* The caller takes up another position to close.
ZNext ==
    /\ cpDone
    /\ cpDone' = FALSE /\ cpRet' = Nil /\ cpOrders' = << >>
    /\ cpAccepted' = FALSE
    /\ cpPos' \in {<<sz>> : sz \in PositionSizes} \cup {<< >>}
    /\ cpSide' \in {"LONG", "SHORT", "BOTH"}
    /\ UNCHANGED <<cpConnected, notClose>>

-----------------------------------------------------------------------------
(***************************************************************************)
(* SignalProcessor.ProcessSignal (integration.go:47-95), one call; each    *)
(* connector call is a step.  SetLeverage and PlaceOrder are the           *)
(* connector's: each returns nil or an error.                              *)
(***************************************************************************)
LeverageErrors == {NewBrokerError("LEVERAGE_FAILED", PlainErr("other"))}
PlaceErrors    == {Sentinel("ErrInvalidQuantity"),
                   NewBrokerError("ORDER_FAILED", PlainErr("other"))}

NoCalls == [isConnected |-> 0, setLeverage |-> 0, placeOrder |-> 0]

IdleSignal ==
    /\ spSig = NoSignal /\ spPc = "idle" /\ spBroker = 0 /\ spReq = << >>
    /\ spRet = Nil /\ spCalls = NoCalls /\ spLevErr = Nil
    /\ spPlaceErr = Nil /\ spTrace = << >>

\* A registry holding the binance connector, connected or not.
InitSignal ==
    /\ spSig \in Signals /\ spPc = "validate" /\ spBroker = 0
    /\ spReq = << >> /\ spRet = Nil /\ spCalls = NoCalls /\ spLevErr = Nil
    /\ spPlaceErr = Nil /\ spTrace = << >>
    /\ brokers = [n \in Names |-> IF n = "binance" THEN 1 ELSE 0]
    /\ nConns = 1 /\ mRet = Nil
    /\ mClosed = [c \in ConnIds |-> 0] /\ mFailed = {}
    /\ mOp = "" /\ mBefore = NoBrokers
    /\ \E up \in BOOLEAN : connected = [c \in ConnIds |-> c = 1 /\ up]

validateSignal_NoSizeCheck(signal) ==
    IF signal.Symbol = "" THEN PlainErr("symbol is required")
    ELSE IF signal.Exchange = "" THEN PlainErr("exchange is required")
    ELSE IF signal.Action = "" THEN PlainErr("action is required")
    ELSE Nil

\* validateSignal (integration.go:98-120).
validateSignal(signal) ==
    IF signal.Symbol = "" THEN PlainErr("symbol is required")
    ELSE IF signal.Exchange = "" THEN PlainErr("exchange is required")
    ELSE IF signal.Action = "" THEN PlainErr("action is required")
    ELSE IF signal.MarketPositionSize.kind = "empty"
      THEN PlainErr("market position size is required")
    ELSE Nil

SPReturn(err) == spPc' = "done" /\ spRet' = err

\* Lines 50-53.
SPValidate ==
    /\ spPc = "validate"
    /\ LET err == validateSignal(spSig) IN
       IF err # Nil
         THEN SPReturn(Errorf("signal validation failed", err))
         ELSE spPc' = "getbroker" /\ UNCHANGED spRet
    /\ UNCHANGED <<spSig, spBroker, spReq, spCalls, spLevErr, spPlaceErr,
                   spTrace, mgrVars, notSignal>>

\* Lines 55-59.
SPGetBroker ==
    /\ spPc = "getbroker"
    /\ LET got == GetBroker(ToLower(spSig.Exchange)) IN
       IF got.err # Nil
         THEN /\ SPReturn(Errorf("failed to get broker", got.err))
              /\ UNCHANGED spBroker
         ELSE /\ spBroker' = got.broker /\ spPc' = "isconnected"
              /\ UNCHANGED spRet
    /\ spTrace' = Append(spTrace, "GetBroker")
    /\ UNCHANGED <<spSig, spReq, spCalls, spLevErr, spPlaceErr, mgrVars,
                   notSignal>>

NeedsLeverage_Always(leverage) == TRUE

\* Line 67: whether setLeverage is called.
NeedsLeverage(leverage) == leverage > 0

\* Lines 61-67.
SPIsConnected ==
    /\ spPc = "isconnected"
    /\ spCalls' = [spCalls EXCEPT !.isConnected = @ + 1]
    /\ IF ~connected[spBroker]
         THEN SPReturn(PlainErr("broker is not connected"))
         ELSE /\ spPc' = IF NeedsLeverage(spSig.Leverage) THEN "leverage"
                              ELSE "calc"
              /\ UNCHANGED spRet
    /\ spTrace' = Append(spTrace, "IsConnected")
    /\ UNCHANGED <<spSig, spBroker, spReq, spLevErr, spPlaceErr, mgrVars,
                   notSignal>>

\* Lines 67-72 with setLeverage (123-134): a failure is only logged.
SPSetLeverage ==
    /\ spPc = "leverage"
    /\ spCalls' = [spCalls EXCEPT !.setLeverage = @ + 1]
    /\ spLevErr' \in {Nil} \cup LeverageErrors
    /\ spPc' = "calc" /\ UNCHANGED spRet
    /\ spTrace' = Append(spTrace, "SetLeverage")
    /\ UNCHANGED <<spSig, spBroker, spReq, spPlaceErr, mgrVars, notSignal>>

\* Lines 74-83.
SPCalculate ==
    /\ spPc = "calc"
    /\ LET r == calculateOrderFromSignal(spSig) IN
       IF r.err # Nil
         THEN /\ SPReturn(Errorf("failed to calculate order", r.err))
              /\ UNCHANGED spReq
       ELSE IF r.req = << >>
         THEN SPReturn(Nil) /\ UNCHANGED spReq
       ELSE /\ spReq' = r.req /\ spPc' = "place" /\ UNCHANGED spRet
    /\ UNCHANGED <<spSig, spBroker, spCalls, spLevErr, spPlaceErr, spTrace,
                   mgrVars, notSignal>>

PlaceOutcome_Swallowed(err) == Nil

\* Lines 87-94: what ProcessSignal returns after PlaceOrder returned err.
PlaceOutcome(err) ==
    IF err # Nil THEN Errorf("failed to place order", err) ELSE Nil

\* Lines 85-94.
SPPlaceOrder ==
    /\ spPc = "place"
    /\ spCalls' = [spCalls EXCEPT !.placeOrder = @ + 1]
    /\ \E err \in {Nil} \cup PlaceErrors :
         spPlaceErr' = err /\ SPReturn(PlaceOutcome(err))
    /\ spTrace' = Append(spTrace, "PlaceOrder")
    /\ UNCHANGED <<spSig, spBroker, spReq, spLevErr, mgrVars, notSignal>>

-----------------------------------------------------------------------------
(***************************************************************************)
(* SignalProcessor.ProcessMultipleSignals (integration.go:194-220), one    *)
(* call: the caller's two loops and one goroutine per signal, interleaved  *)
(* in any order.  The goroutine's ProcessSignal call is one step that      *)
(* returns any of the values ProcessSignal can return on its signal.       *)
(***************************************************************************)
\* The signals a batch is drawn from: one that fails validation, one that
\* passes it.
BatchSignals ==
    {s \in Signals :
        /\ s.Exchange = "Binance" /\ s.Action = "buy" /\ s.Leverage = 0
        /\ s.MarketPositionSize = NumStr(1)
        /\ s.PrevMarketPositionSize = NumStr(0)
        /\ s.OrderType = "market" /\ s.Price = ""}

BatchInputs ==
    UNION {[1 .. n -> BatchSignals] : n \in 0 .. MaxBatch}

\* ProcessSignal (lines 47-95): what it can return on a signal, its broker
\* being registered and connected.
ProcessSignalOutcomes(signal) ==
    IF validateSignal(signal) # Nil
      THEN {Errorf("signal validation failed", validateSignal(signal))}
      ELSE {PlaceOutcome(err) : err \in {Nil} \cup PlaceErrors}

\* Lines 195-196 and 204: results and resultChan are made.
InitBatch ==
    /\ bSignals \in BatchInputs /\ bPc = "spawn" /\ bI = 1
    /\ bTask = [i \in BatchIdx |-> "none"] /\ bErr = [i \in BatchIdx |-> << >>]
    /\ bChan = << >> /\ bResults = [i \in 1 .. Len(bSignals) |-> Nil]
    /\ bRet = << >> /\ bOrder = << >>

ChanCap_One(n) == IF n = 0 THEN 0 ELSE 1

\* Line 204: make(chan result, len(signals)).
ChanCap(n) == n

\* Lines 206-211: the go statement of one iteration; index and sig are
\* arguments of the function literal.
BSpawn ==
    /\ bPc = "spawn" /\ bI <= Len(bSignals)
    /\ bTask' = [bTask EXCEPT ![bI] = "run"]
    /\ bI' = bI + 1
    /\ UNCHANGED <<bSignals, bPc, bErr, bChan, bResults, bRet, bOrder, notBatch>>

\* Line 206: the range is exhausted; line 214 starts the collecting loop.
BRangeEnd ==
    /\ bPc = "spawn" /\ bI > Len(bSignals)
    /\ bPc' = "collect" /\ bI' = 0
    /\ UNCHANGED <<bSignals, bTask, bErr, bChan, bResults, bRet, bOrder,
                   notBatch>>

\* Line 208, in the goroutine of some index.
BProcess ==
    \E i \in BatchIdx :
      /\ bTask[i] = "run"
      /\ \E err \in ProcessSignalOutcomes(bSignals[i]) :
           bErr' = [bErr EXCEPT ![i] = <<err>>]
      /\ bTask' = [bTask EXCEPT ![i] = "send"]
      /\ UNCHANGED <<bSignals, bPc, bI, bChan, bResults, bRet, bOrder,
                     notBatch>>

\* Line 209, in the goroutine of some index: the send proceeds when the
\* buffer has room.
BSend ==
    \E i \in BatchIdx :
      /\ bTask[i] = "send"
      /\ Len(bChan) < ChanCap(Len(bSignals))
      /\ bChan' = Append(bChan, [index |-> i, err |-> bErr[i][1]])
      /\ bOrder' = Append(bOrder, i)
      /\ bTask' = [bTask EXCEPT ![i] = "done"]
      /\ UNCHANGED <<bSignals, bPc, bI, bErr, bResults, bRet, notBatch>>

\* Lines 214-217: one iteration of the collecting loop.
BRecv ==
    /\ bPc = "collect" /\ bI < Len(bSignals)
    /\ bChan # << >>
    /\ LET res == Head(bChan) IN
         bResults' = [bResults EXCEPT ![res.index] = res.err]
    /\ bChan' = Tail(bChan)
    /\ bI' = bI + 1
    /\ UNCHANGED <<bSignals, bPc, bTask, bErr, bRet, bOrder, notBatch>>

\* Line 219.
BReturn ==
    /\ bPc = "collect" /\ bI >= Len(bSignals)
    /\ bPc' = "returned" /\ bRet' = <<bResults>>
    /\ UNCHANGED <<bSignals, bI, bTask, bErr, bChan, bResults, bOrder,
                   notBatch>>

-----------------------------------------------------------------------------
(***************************************************************************)
(* TradingService.executeOnBinance (trading.go:820-900) and                *)
(* executeOnBinanceLegacy (trading.go:718-805), one call.  The client is a *)
(* broker.Broker: PlaceOrder returns an order, or an error, or neither.    *)
(***************************************************************************)
ExecSignals ==
    [Symbol : {"btcusdt"}, Exchange : {"Binance"}, Action : {"buy"},
     MarketPositionSize : SizeStrs, PrevMarketPositionSize : SizeStrs,
     Leverage : {0}, OrderType : {"market"}, Price : {""}]

Alerts == [Action : {"buy", "sell", "close"}, Quantity : {0, UnitsPerTick},
           Price : {0, 51000}]

NoAlert == [Action |-> "", Quantity |-> 0, Price |-> 0]

ExecPlaceErrors == {Sentinel("ErrTimeout"),
                    NewBrokerError("RATE_LIMIT", PlainErr("other")),
                    Sentinel("ErrInvalidQuantity"),
                    NewBrokerError("ORDER_FAILED", PlainErr("other"))}

\* What PlaceOrder may return: (order, nil), (nil, err), (nil, nil).
PlaceResults ==
    {[order |-> "order", err |-> Nil], [order |-> "nil", err |-> Nil]}
        \cup {[order |-> "nil", err |-> e] : e \in ExecPlaceErrors}

\* convertAlertToOrderRequest (trading.go:1039-1071).
convertAlertToOrderRequest(alert) ==
    IF alert.Action \notin {"buy", "sell"}
      THEN [req |-> << >>, err |-> PlainErr("unsupported action")]
      ELSE [req |-> << [Symbol       |-> "BTCUSDT",
                        Side         |-> IF alert.Action = "buy" THEN "BUY"
                                         ELSE "SELL",
                        Type         |-> IF alert.Price > 0 THEN "LIMIT"
                                         ELSE "MARKET",
                        Quantity     |-> NumStr(alert.Quantity),
                        Price        |-> IF alert.Price > 0
                                           THEN "51000.00000000" ELSE "",
                        PositionSide |-> "BOTH",
                        TimeInForce  |-> "GTC",
                        ReduceOnly   |-> FALSE] >>,
            err |-> Nil]

IdleExec ==
    /\ xMode = "signal" /\ xSig = NoSignal /\ xAlert = NoAlert /\ xPc = "idle"
    /\ xReq = << >> /\ xRet = Nil /\ xPlaceCalls = 0 /\ xErrs = << >>
    /\ xClient = "none"

InitExec ==
    /\ \/ xMode = "signal" /\ xSig \in ExecSignals /\ xAlert = NoAlert
       \/ xMode = "legacy" /\ xSig = NoSignal /\ xAlert \in Alerts
    /\ xPc = "prepare" /\ xReq = << >> /\ xRet = Nil /\ xPlaceCalls = 0
    /\ xErrs = << >> /\ xClient = "none"

\* The deferred Close runs on every return once the client exists.
XReturn(err) ==
    /\ xPc' = "done" /\ xRet' = err
    /\ xClient' = IF xClient = "connected" THEN "closed" ELSE xClient

\* The ways the steps before the conversion fail: the credentials lookup or
\* createBinanceClient (lines 825-836); the configuration checks or
\* Initialize (lines 721-744).
PrepareFailures(mode) ==
    IF mode = "signal"
      THEN {Errorf("failed to get binance credentials", PlainErr("other")),
            Errorf("failed to create binance client",
                   Errorf("failed to initialize binance client",
                          Sentinel("ErrInvalidCredentials")))}
      ELSE {PlainErr("binance trading is not configured or not active"),
            PlainErr("binance credentials are not configured"),
            Errorf("failed to initialize binance client",
                   Sentinel("ErrInvalidCredentials"))}

XPrepare ==
    /\ xPc = "prepare"
    /\ \/ \E err \in PrepareFailures(xMode) :
            xPc' = "done" /\ xRet' = err /\ UNCHANGED xClient
       \/ xPc' = "convert" /\ xClient' = "connected" /\ UNCHANGED xRet
    /\ UNCHANGED <<xMode, xSig, xAlert, xReq, xPlaceCalls, xErrs, notExec>>

\* Lines 843-853 (752-757): the conversion; a nil request ends the call.
XConvert ==
    /\ xPc = "convert"
    /\ LET r == IF xMode = "signal" THEN convertSignalToOrderRequest(xSig)
                ELSE convertAlertToOrderRequest(xAlert) IN
       IF r.err # Nil
         THEN /\ XReturn(Errorf("failed to convert to order request", r.err))
              /\ UNCHANGED xReq
       ELSE IF xMode = "signal" /\ r.req = << >>
         THEN XReturn(Nil) /\ UNCHANGED xReq
       ELSE /\ xReq' = r.req /\ xPc' = "place"
            /\ UNCHANGED <<xRet, xClient>>
    /\ UNCHANGED <<xMode, xSig, xAlert, xPlaceCalls, xErrs, notExec>>

\* The result once PlaceOrder returned without error (lines 886-900).
XAfterOrder(res) ==
    IF res.order = "nil"
      THEN XReturn(PlainErr("received nil order response from binance"))
      ELSE XReturn(Nil)

RetriesAfter_AnyError(err) == err # Nil

\* Lines 867 (770): whether the failed first attempt is retried.
RetriesAfter(err) == IsRetryableError(err)

\* Lines 862-884 (765-787): the first PlaceOrder.
XPlace ==
    /\ xPc = "place"
    /\ xPlaceCalls' = xPlaceCalls + 1
    /\ \E res \in PlaceResults :
         /\ xErrs' = Append(xErrs, res.err)
         /\ IF res.err # Nil
              THEN IF RetriesAfter(res.err)
                     THEN xPc' = "retry" /\ UNCHANGED <<xRet, xClient>>
                     ELSE XReturn(Errorf("failed to place binance order",
                                         res.err))
              ELSE XAfterOrder(res)
    /\ UNCHANGED <<xMode, xSig, xAlert, xReq, notExec>>

\* Lines 869-880 (772-783): after the sleep, the second PlaceOrder.
XRetry ==
    /\ xPc = "retry"
    /\ xPlaceCalls' = xPlaceCalls + 1
    /\ \E res \in PlaceResults :
         /\ xErrs' = Append(xErrs, res.err)
         /\ IF res.err # Nil
              THEN XReturn(Errorf("failed to place binance order after retry",
                                  res.err))
              ELSE XAfterOrder(res)
    /\ UNCHANGED <<xMode, xSig, xAlert, xReq, notExec>>

-----------------------------------------------------------------------------
(* Specification of the error classification: IsRetryableError applied to   *)
(* every error of Errors.                                                   *)
NextErr == Classify

\* The classification's inputs; every other component idle.
StartErr ==
    /\ InitErr
    /\ IdleRetry
    /\ IdleOrder
    /\ IdleMgr
    /\ IdleFan
    /\ IdleSignal
    /\ IdleExec
    /\ IdleExt

SpecErr ==
    /\ StartErr
    /\ [][NextErr]_vars

RetrySentinels == {"ErrRateLimitExceeded", "ErrNetworkError", "ErrTimeout"}

\* err is, or wraps at any depth, one of the three retryable sentinels.
WrapsRetrySentinel(err) ==
    \E i \in 1 .. Len(err) :
        err[i].kind = "sentinel" /\ err[i].val \in RetrySentinels

\* err is a *BrokerError.
IsBrokerError(err) == err # Nil /\ err[1].kind = "broker"

\* C5: IsRetryableError is true of an error that is or wraps
\* ErrRateLimitExceeded, ErrNetworkError or ErrTimeout and of a BrokerError
\* whose code is RATE_LIMIT, NETWORK_ERROR, TIMEOUT or SERVER_ERROR; it is
\* false of nil, of every other sentinel, and of a BrokerError with another
\* code whose cause chain holds none of the three retryable sentinels.
C5_Retryability ==
    clsOut # "unset" =>
      /\ WrapsRetrySentinel(clsErr) => clsOut = "retryable"
      /\ (IsBrokerError(clsErr) /\ clsErr[1].val \in RetryCodes)
            => clsOut = "retryable"
      /\ clsErr = Nil => clsOut = "terminal"
      /\ (\E s \in Sentinels \ RetrySentinels : clsErr = Sentinel(s))
            => clsOut = "terminal"
      /\ (IsBrokerError(clsErr) /\ clsErr[1].val \notin RetryCodes
            /\ ~WrapsRetrySentinel(clsErr)) => clsOut = "terminal"

C5_Witness ==
    /\ clsOut = "retryable"
    /\ clsErr = NewBrokerError("SERVER_ERROR", PlainErr("other"))

-----------------------------------------------------------------------------
(* Specification of one RetryWithBackoff call.  The loop, the timer and fn  *)
(* make progress (fn returns); nothing obliges the caller to cancel.        *)
NextRetry == RLoop \/ RTimerFires \/ RSelect \/ RCall \/ RCancel

\* One RetryWithBackoff call about to start; every other component idle.
StartRetry ==
    /\ InitRetry
    /\ IdleErr
    /\ IdleOrder
    /\ IdleMgr
    /\ IdleFan
    /\ IdleSignal
    /\ IdleExec
    /\ IdleExt

SpecRetry ==
    /\ StartRetry
    /\ [][NextRetry]_vars
    /\ WF_vars(RetryStep)

RetryDone == rPc = "done"

\* C6: once fn has returned a non-retryable error, fn is not invoked again
\* and RetryWithBackoff returns exactly that error, whatever attempts remain.
C6_StopsOnTerminalError ==
    /\ ~rHist.afterFinal
    /\ (rCalls > 0 /\ rLastRes # Nil /\ ~IsRetryableError(rLastRes))
          => (RetryDone /\ rRet = rLastRes)

C6_Witness ==
    /\ RetryDone /\ rCalls = 2 /\ rAttempt + 2 <= rMax
    /\ rLastRes = Sentinel("ErrInvalidSymbol") /\ rRet = rLastRes

C7_Safe ==
    rMax >= 0 =>
      /\ rCalls <= rMax + 1
      /\ ~rHist.afterFinal
      /\ (rCalls > 0 /\ rLastRes = Nil) => (RetryDone /\ rRet = Nil)
      /\ (RetryDone /\ ~rCtxDone) => rCalls > 0
      /\ (RetryDone /\ ~rCtxDone /\ rCalls > 0 /\ IsRetryableError(rLastRes))
            => (rCalls = rMax + 1 /\ rRet = rLastRes)

\* C7: with maxRetries >= 0, fn is invoked at most maxRetries+1 times; the
\* first success ends the call with nil; when every attempt fails with a
\* retryable error and the context is never cancelled, fn is invoked exactly
\* maxRetries+1 times and the last attempt's error is returned; and the call
\* terminates.
C7_BoundedAttempts == []C7_Safe /\ <>RetryDone

C7_Witness ==
    /\ RetryDone /\ ~rCtxDone /\ rMax >= 2 /\ rCalls = rMax + 1
    /\ IsRetryableError(rLastRes) /\ rRet = rLastRes

\* C8: the delays waited before attempts 1, 2, ... are non-decreasing and
\* none exceeds one minute.
C8_DelaysMonotoneCapped ==
    /\ \A i \in 1 .. Len(rDelays) : ~Gt64(rDelays[i], Minute)
    /\ \A i, j \in 1 .. Len(rDelays) :
          i < j => ~Gt64(rDelays[i], rDelays[j])

\* C9: when the context is cancelled while the call waits between two
\* attempts, the call returns the context's error and fn is not invoked
\* again.
C9_CancelDuringWait ==
    rHist.cancelInWait =>
        (RetryDone /\ rRet = CtxErr /\ rCalls = rHist.atCancel)

C9_Witness ==
    /\ rHist.cancelInWait /\ RetryDone /\ rRet = CtxErr
    /\ rCalls >= 1 /\ rLastErr # Nil /\ rLastErr # CtxErr

-----------------------------------------------------------------------------
(* Specification of the order calculation: the builders applied to every    *)
(* signal of OrderSignals.                                                  *)
NextOrder == OCalculate \/ OBuildSP \/ OBuildTS

\* A signal whose sizes parse; every other component idle.
StartOrder ==
    /\ InitOrder
    /\ IdleErr
    /\ IdleRetry
    /\ IdleMgr
    /\ IdleFan
    /\ IdleSignal
    /\ IdleExec
    /\ IdleExt

SpecOrder ==
    /\ StartOrder
    /\ [][NextOrder]_vars

Abs(n) == IF n < 0 THEN -n ELSE n

\* C1: for sizes with target # previous, CalculateOrderQuantity returns no
\* error, quantity = |target - previous| > 0, and side Buy if
\* target > previous, Sell if target < previous.
C1_QuantityAndSide ==
    (oCalc # << >> /\ OTarget.v # OCurrent.v) =>
      /\ oCalc[1].err = Nil
      /\ oCalc[1].quantity = Abs(OTarget.v - OCurrent.v)
      /\ oCalc[1].quantity > 0
      /\ OTarget.v > OCurrent.v => oCalc[1].side = "BUY"
      /\ OTarget.v < OCurrent.v => oCalc[1].side = "SELL"

C1_Witness ==
    /\ oCalc # << >> /\ OCurrent.v = 5 /\ OTarget.v = -3
    /\ oCalc[1] = [quantity |-> 8, side |-> "SELL", err |-> Nil]

ReduceOnlyExpected ==
    \/ OCurrent.v > 0 /\ OTarget.v < OCurrent.v
    \/ OCurrent.v < 0 /\ OTarget.v > OCurrent.v

\* C3: a request built from a signal, by either builder, has ReduceOnly
\* exactly when (previous > 0 and target < previous) or (previous < 0 and
\* target > previous): a move through zero is reduce-only, an order opened
\* from flat never is.
C3_ReduceOnly ==
    \A r \in {oReqSP, oReqTS} :
      (r # << >> /\ r[1].req # << >>) =>
        /\ r[1].req[1].ReduceOnly = ReduceOnlyExpected
        /\ (OCurrent.v > 0 /\ OTarget.v < 0) => r[1].req[1].ReduceOnly
        /\ (OCurrent.v < 0 /\ OTarget.v > 0) => r[1].req[1].ReduceOnly
        /\ OCurrent.v = 0 => ~r[1].req[1].ReduceOnly

C3_Witness ==
    /\ OCurrent.v = 5 /\ OTarget.v = -3
    /\ oReqSP # << >> /\ oReqSP[1].req # << >>
    /\ oReqSP[1].req[1].ReduceOnly /\ oReqSP[1].req[1].Side = "SELL"
    /\ oReqTS # << >> /\ oReqTS[1].req # << >>
    /\ oReqTS[1].req[1].ReduceOnly

-----------------------------------------------------------------------------
(* Specification of one ProcessSignal call on a registry that holds the     *)
(* binance connector.                                                       *)
NextSignal ==
    SPValidate \/ SPGetBroker \/ SPIsConnected \/ SPSetLeverage
        \/ SPCalculate \/ SPPlaceOrder

\* One ProcessSignal call about to start on a registry with one broker.
StartSignal ==
    /\ InitSignal
    /\ IdleErr
    /\ IdleRetry
    /\ IdleOrder
    /\ IdleFan
    /\ IdleExec
    /\ IdleExt

SpecSignal ==
    /\ StartSignal
    /\ [][NextSignal]_vars

SPCurrent == ParseFloat(spSig.PrevMarketPositionSize)
SPTarget  == ParseFloat(spSig.MarketPositionSize)

\* The call got as far as computing the order from sizes that parse and are
\* equal.
SPNoChangeCase ==
    /\ spPc = "done" /\ spCalls.isConnected = 1 /\ connected[spBroker]
    /\ SPCurrent.err = Nil /\ SPTarget.err = Nil
    /\ SPCurrent.v = SPTarget.v

\* C2: when the previous and target sizes of a signal are equal,
\* ProcessSignal skips the signal: it returns nil and PlaceOrder is not
\* called.
C2_NoChangeIsSkipped ==
    SPNoChangeCase => (spRet = Nil /\ spCalls.placeOrder = 0)

-----------------------------------------------------------------------------
(* Specification of one executeOnBinance / executeOnBinanceLegacy call.     *)
NextExec == XPrepare \/ XConvert \/ XPlace \/ XRetry

\* One executeOnBinance call about to start; every other component idle.
StartExec ==
    /\ InitExec
    /\ IdleErr
    /\ IdleRetry
    /\ IdleOrder
    /\ IdleMgr
    /\ IdleFan
    /\ IdleSignal
    /\ IdleExt

SpecExec ==
    /\ StartExec
    /\ [][NextExec]_vars

\* C4: one call invokes PlaceOrder at most twice; the second attempt is made
\* only after the first failed with a retryable error; a failure of the
\* second attempt is returned and nothing more is attempted.
C4_AtMostTwoAttempts ==
    /\ xPlaceCalls <= 2 /\ Len(xErrs) = xPlaceCalls
    /\ xPlaceCalls = 2 => (xErrs[1] # Nil /\ IsRetryableError(xErrs[1]))
    /\ (xPlaceCalls = 2 /\ xErrs[2] # Nil) =>
          /\ xPc = "done"
          /\ xRet = Errorf("failed to place binance order after retry",
                           xErrs[2])

C4_Witness ==
    /\ xPc = "done" /\ xMode = "legacy" /\ xPlaceCalls = 2
    /\ xErrs[1] = Sentinel("ErrTimeout") /\ xErrs[2] = Sentinel("ErrTimeout")
    /\ xRet # Nil

-----------------------------------------------------------------------------
(* Specification of the Manager: registry mutations, and one                *)
(* ExecuteOnAllBrokers call running beside them.                            *)
NextMgr ==
    MAddBroker \/ MAddNilBroker \/ MRemoveBroker \/ MClose
        \/ EStart \/ ESnapshot \/ ELoop \/ ECall

\* The Manager as NewManager returns it; every other component idle.
StartMgr ==
    /\ IdleMgr
    /\ IdleFan
    /\ IdleErr
    /\ IdleRetry
    /\ IdleOrder
    /\ IdleSignal
    /\ IdleExec
    /\ IdleExt

SpecMgr ==
    /\ StartMgr
    /\ [][NextMgr]_vars

Registered(n)   == brokers[n] # 0
HasEntry(n)     == eResults[n] # << >>

\* C10: ExecuteOnAllBrokers invokes the operation exactly once on every
\* broker of the registry that reports connected and never on one that
\* reports disconnected; the returned map has an entry for exactly the
\* disconnected brokers and those whose operation returned an error; one
\* disconnected broker among N leaves one entry and N-1 executions.
C10_FanOutPartialFailure ==
    /\ \A n \in Names : eCalls[n] <= 1
    /\ ePc = "done" =>
         /\ \A n \in Names :
              /\ eSnap[n] # 0 <=> eSeen[n] # "unvisited"
              /\ eCalls[n] = 1 <=> eSeen[n] = "connected"
              /\ HasEntry(n) <=> \/ eSeen[n] = "disconnected"
                                 \/ eSeen[n] = "connected" /\ eOpErr[n] # Nil
         /\ eQuiet =>
              /\ \A n \in Names :
                   /\ eSeen[n] = "connected"
                        <=> (Registered(n) /\ connected[brokers[n]])
                   /\ eSeen[n] = "disconnected"
                        <=> (Registered(n) /\ ~connected[brokers[n]])
              /\ ( /\ Cardinality({n \in Names : Registered(n)
                                      /\ ~connected[brokers[n]]}) = 1
                   /\ \A n \in Names : eOpErr[n] = Nil )
                 => /\ Cardinality({n \in Names : HasEntry(n)}) = 1
                    /\ Cardinality({n \in Names : eCalls[n] = 1})
                         = Cardinality({n \in Names : Registered(n)}) - 1

C10_Witness ==
    /\ ePc = "done" /\ eQuiet
    /\ \A n \in Names : Registered(n) /\ eOpErr[n] = Nil
    /\ Cardinality({n \in Names : ~connected[brokers[n]]}) = 1
    /\ Cardinality({n \in Names : HasEntry(n)}) = 1
    /\ Cardinality({n \in Names : eCalls[n] = 1}) = 2

\* One ExecuteOnAllBrokers call, with AddBroker, RemoveBroker and Close of
\* other callers running between its steps.
NextLock ==
    EStart \/ ESnapshot \/ ELoop \/ ECall
        \/ MAddBroker \/ MRemoveBroker \/ MClose

SpecLock ==
    /\ StartMgr
    /\ [][NextLock]_vars

\* C21: ExecuteOnAllBrokers copies the registry while it holds the read
\* lock and has released it before any callback: while a callback runs,
\* AddBroker, RemoveBroker and Close can take their step; the fan-out
\* visits the brokers of its snapshot and no other, a broker added after
\* the snapshot included.
C21_SnapshotThenUnlocked ==
    /\ ePc = "call" =>
         /\ ~RLockHeld
         /\ ENABLED MRemoveBroker /\ ENABLED MClose
         /\ nConns < MaxConns => ENABLED MAddBroker
    /\ ePc = "locked" =>
         ~(ENABLED MAddBroker \/ ENABLED MRemoveBroker \/ ENABLED MClose)
    /\ (FanRunning /\ eQuiet) => eSnap = brokers
    /\ ePc \in {"loop", "call", "done"} =>
         \A n \in Names :
           /\ eSnap[n] = 0 =>
                (eSeen[n] = "unvisited" /\ eCalls[n] = 0 /\ ~HasEntry(n))
           /\ (ePc = "done" /\ eSnap[n] # 0) => eSeen[n] # "unvisited"

C21_Witness ==
    /\ ePc = "done" /\ ~eQuiet
    /\ \E n, m \in Names :
         /\ eSnap[n] = 0 /\ Registered(n) /\ connected[brokers[n]]
         /\ eSeen[n] = "unvisited" /\ eCalls[n] = 0
         /\ eSnap[m] # 0 /\ eCalls[m] = 1 /\ brokers[m] = eSnap[m]

-----------------------------------------------------------------------------
(* Specification of Manager.InitializeBroker: calls one after another, and  *)
(* AddBroker, RemoveBroker and Close running between their steps.           *)
NextInit ==
    IBCreate \/ IBInitialize \/ IBAdd \/ MAddBroker \/ MRemoveBroker
        \/ MClose

StartInit ==
    /\ IdleMgr
    /\ IdleExt
    /\ IdleFan
    /\ IdleErr
    /\ IdleRetry
    /\ IdleOrder
    /\ IdleSignal
    /\ IdleExec

SpecInit ==
    /\ StartInit
    /\ [][NextInit]_vars

\* A step of the InitializeBroker call.
IBStep == ibPc' # ibPc

IBOutcome ==
    ibPc = "done" =>
      /\ ibRet = Nil <=> (ibName \in Registry /\ ibInitErr = Nil)
      /\ ibAdded <=> ibRet = Nil

IBRegistryEffect ==
    (IBStep /\ brokers' # brokers) =>
      /\ ibPc = "initialized" /\ ibName \in Registry /\ ibInitErr = Nil
      /\ brokers' = [brokers EXCEPT ![ibName] = ibConn]
      /\ ibRet' = Nil

\* C11: InitializeBroker stores the connector under name only when Create
\* and Initialize both succeeded; when either fails it returns an error and
\* no step of the call changes the registry.
C11_InitializeBrokerAddsOnSuccess == []IBOutcome /\ [][IBRegistryEffect]_vars

C11_Witness ==
    /\ ibPc = "done" /\ ibName = "binance" /\ ibRet # Nil
    /\ ibInitErr = Sentinel("ErrInvalidCredentials")
    /\ brokers["binance"] # 0 /\ brokers["binance"] # ibConn

BeforeConns == {mBefore[n] : n \in Names} \ {0}

\* C12: after Manager.Close the registry is empty and Close() ran exactly
\* once on every connector the registry held when it started, failures
\* included; the call returns an error exactly when some Close() failed.
C12_CloseClearsAndAggregates ==
    mOp = "Close" =>
      /\ brokers = NoBrokers
      /\ \A c \in ConnIds : mClosed[c] = IF c \in BeforeConns THEN 1 ELSE 0
      /\ mFailed \subseteq BeforeConns
      /\ mRet # Nil <=> mFailed # {}

C12_Witness ==
    /\ mOp = "Close" /\ Cardinality(BeforeConns) = 3
    /\ Cardinality(mFailed) = 1 /\ mRet # Nil
    /\ \A c \in BeforeConns : mClosed[c] = 1

-----------------------------------------------------------------------------
(* Specification of the Binance connector: any sequence of Initialize,      *)
(* TestConnection, Close and operations on a new client.                    *)
NextClient == CInitialize \/ CTestConnection \/ COperation \/ CClose

StartClient ==
    /\ IdleExt
    /\ IdleMgr
    /\ IdleFan
    /\ IdleErr
    /\ IdleRetry
    /\ IdleOrder
    /\ IdleSignal
    /\ IdleExec

SpecClient ==
    /\ StartClient
    /\ [][NextClient]_vars

\* C13: an operation called while the connector is not connected (never
\* initialized, its Initialize failed, or closed) returns ErrNotConnected
\* and makes no SDK request; once Close was called IsConnected() is false
\* until an Initialize succeeds.
C13_NotConnectedGuard ==
    /\ (cOp \in ClientOps /\ ~cPrev.connected) =>
          (cRet = Sentinel("ErrNotConnected") /\ ~cSdk /\ cProbe = "none")
    /\ cClosedSince => ~cConnected

C13_Witness ==
    /\ cOp = "PlaceOrder" /\ cClosedSince /\ cCreds # NoCredentials
    /\ cRet = Sentinel("ErrNotConnected") /\ ~cSdk

\* C14: whatever preceded it, an Initialize whose liveness probe fails
\* returns an error and leaves the connector not connected; one whose probe
\* succeeds leaves it connected.
C14_FailedProbeDisconnects ==
    cOp = "Initialize" =>
      /\ cProbe = "fail" => (cRet # Nil /\ ~cConnected)
      /\ cProbe = "ok" => (cRet = Nil /\ cConnected)

\* C15: Initialize with nil credentials or an empty API key or secret key
\* returns an error that is or wraps ErrInvalidCredentials, makes no probe,
\* and leaves credentials, SDK client and connected flag as they were.
C15_InvalidCredentialsRejected ==
    (cOp = "Initialize"
       /\ (cArg = NoCredentials \/ cArg[1].APIKey = ""
             \/ cArg[1].SecretKey = "")) =>
      /\ errorsIs(cRet, "ErrInvalidCredentials")
      /\ cProbe = "none"
      /\ ClientFields = cPrev

C15_Witness ==
    /\ cOp = "Initialize" /\ cArg # NoCredentials
    /\ cArg[1].APIKey = "key2" /\ cArg[1].SecretKey = ""
    /\ cConnected /\ cCreds[1].APIKey = "key1"
    /\ errorsIs(cRet, "ErrInvalidCredentials")

-----------------------------------------------------------------------------
(* Claims on SignalProcessor.ProcessSignal, under SpecSignal.                *)
SPCalc == calculateOrderFromSignal(spSig)

SPInvalid ==
    \/ spSig.Symbol = "" \/ spSig.Exchange = "" \/ spSig.Action = ""
    \/ spSig.MarketPositionSize.kind = "empty"

Occurrences(trace, call) ==
    Cardinality({i \in 1 .. Len(trace) : trace[i] = call})

\* C16: on a signal whose symbol, exchange, action or target position size
\* is empty, ProcessSignal returns a validation error before any broker
\* lookup and without any connector call.
C16_ValidationFailsFast ==
    SPInvalid =>
      /\ spTrace = << >> /\ spCalls = NoCalls
      /\ spPc \in {"validate", "done"}
      /\ spPc = "done" =>
           (Len(spRet) = 2 /\ spRet[1].val = "signal validation failed")

C16_Witness ==
    /\ spPc = "done" /\ spSig.Symbol = "btcusdt" /\ spSig.Exchange = "Binance"
    /\ spSig.Action = "buy" /\ spSig.MarketPositionSize = EmptyStr
    /\ spRet = Errorf("signal validation failed",
                      PlainErr("market position size is required"))
    /\ spTrace = << >>

\* The signal is valid and names a registered, connected connector.
SPResolved ==
    ~SPInvalid /\ spSig.Exchange = "Binance" /\ connected[brokers["binance"]]

\* C17: ProcessSignal resolves the connector registered under the
\* lower-cased exchange name; when none is registered, or the one
\* registered reports IsConnected() false, it returns an error and neither
\* SetLeverage nor PlaceOrder is called.
C17_BrokerResolution ==
    /\ spBroker # 0 =>
         (spSig.Exchange = "Binance" /\ spBroker = brokers["binance"])
    /\ (spPc = "done" /\ SPResolved) => spBroker = brokers["binance"]
    /\ (spPc = "done" /\ ~SPInvalid
          /\ (spSig.Exchange # "Binance" \/ ~connected[brokers["binance"]]))
       => /\ spRet # Nil
          /\ Occurrences(spTrace, "SetLeverage") = 0
          /\ Occurrences(spTrace, "PlaceOrder") = 0
          /\ spCalls.setLeverage = 0 /\ spCalls.placeOrder = 0

C17_Witness ==
    /\ spPc = "done" /\ spSig.Exchange = "Binance" /\ spSig.Leverage = 10
    /\ spBroker = 1 /\ ~connected[spBroker]
    /\ spTrace = <<"GetBroker", "IsConnected">>
    /\ spRet = PlainErr("broker is not connected")

\* What ProcessSignal returns once the broker is resolved and connected, as
\* a function of the order computation and of PlaceOrder alone.
SPExpected ==
    IF SPCalc.err # Nil THEN Errorf("failed to calculate order", SPCalc.err)
    ELSE IF spPlaceErr # Nil THEN Errorf("failed to place order", spPlaceErr)
    ELSE Nil

\* C18: with Leverage > 0 SetLeverage is invoked once, before PlaceOrder; a
\* SetLeverage failure does not end the call: the order is still computed,
\* PlaceOrder still invoked, and the result is that of the computation and
\* of PlaceOrder; with Leverage <= 0 SetLeverage is not invoked.
C18_LeverageBestEffort ==
    /\ spSig.Leverage <= 0 => Occurrences(spTrace, "SetLeverage") = 0
    /\ Occurrences(spTrace, "SetLeverage") <= 1
    /\ \A i, j \in 1 .. Len(spTrace) :
         (spTrace[i] = "SetLeverage" /\ spTrace[j] = "PlaceOrder") => i < j
    /\ (spPc = "done" /\ SPResolved) =>
         /\ spSig.Leverage > 0 => Occurrences(spTrace, "SetLeverage") = 1
         /\ spRet = SPExpected
         /\ SPCalc.err = Nil => Occurrences(spTrace, "PlaceOrder") = 1

C18_Witness ==
    /\ spPc = "done" /\ spSig.Leverage = 10 /\ spLevErr # Nil
    /\ spTrace = <<"GetBroker", "IsConnected", "SetLeverage", "PlaceOrder">>
    /\ spPlaceErr = Nil /\ spRet = Nil

SPWraps(err, cause) ==
    /\ err # Nil /\ cause # Nil /\ Len(err) > Len(cause)
    /\ SubSeq(err, Len(err) - Len(cause) + 1, Len(err)) = cause

\* C19: PlaceOrder is invoked at most once per signal, and only with the
\* order computed from the signal's sizes; when that computation or
\* PlaceOrder fails, ProcessSignal returns an error that wraps the
\* underlying error.
C19_PlaceOrderOnceFailuresFatal ==
    /\ Occurrences(spTrace, "PlaceOrder") <= 1
    /\ spCalls.placeOrder = Occurrences(spTrace, "PlaceOrder")
    /\ (spPc = "place" \/ spCalls.placeOrder > 0) =>
         (SPCalc.err = Nil /\ spReq = SPCalc.req /\ spReq # << >>)
    /\ (spPc = "done" /\ SPResolved /\ SPCalc.err # Nil) =>
         (SPWraps(spRet, SPCalc.err) /\ spCalls.placeOrder = 0)
    /\ (spPc = "done" /\ spPlaceErr # Nil) => SPWraps(spRet, spPlaceErr)

C19_Witness ==
    /\ spPc = "done" /\ spCalls.placeOrder = 1
    /\ spPlaceErr = Sentinel("ErrInvalidQuantity")
    /\ spRet = Errorf("failed to place order", Sentinel("ErrInvalidQuantity"))
    /\ errorsIs(spRet, "ErrInvalidQuantity")

-----------------------------------------------------------------------------
(* Specification of one ProcessMultipleSignals call; every goroutine that   *)
(* can take a step, and the caller, eventually do.                          *)
NextBatch ==
    BSpawn \/ BRangeEnd \/ BProcess \/ BSend \/ BRecv \/ BReturn

StartBatch ==
    /\ InitBatch
    /\ IdleMgr
    /\ IdleInit
    /\ NewClient
    /\ IdleCfg
    /\ IdleAgg
    /\ IdleFan
    /\ IdleErr
    /\ IdleRetry
    /\ IdleOrder
    /\ IdleSignal
    /\ IdleExec
    /\ IdleTest
    /\ IdleVal
    /\ IdleTrack
    /\ IdleReg
    /\ IdleHealth
    /\ IdleClose
    /\ IdlePos

SpecBatch ==
    /\ StartBatch
    /\ [][NextBatch]_vars
    /\ WF_vars(BSpawn) /\ WF_vars(BRangeEnd) /\ WF_vars(BProcess)
    /\ WF_vars(BSend) /\ WF_vars(BRecv) /\ WF_vars(BReturn)

BN == Len(bSignals)

BatchSafety ==
    /\ \A i \in BatchIdx :
         /\ i > BN => bTask[i] = "none"
         /\ bTask[i] = "send" => Len(bChan) < ChanCap(BN)
         /\ bTask[i] \in {"send", "done"} =>
              (bErr[i] # << >> /\ bErr[i][1] \in ProcessSignalOutcomes(bSignals[i]))
    /\ bPc \in {"collect", "returned"} =>
         \A i \in 1 .. BN : bTask[i] # "none"
    /\ bPc = "returned" =>
         /\ bRet # << >> /\ Len(bRet[1]) = BN
         /\ \A i \in 1 .. BN :
              bTask[i] = "done" /\ bErr[i] = <<bRet[1][i]>>
         /\ bChan = << >>
         /\ Len(bOrder) = BN /\ {bOrder[k] : k \in 1 .. BN} = 1 .. BN
    /\ bPc # "returned" => bRet = << >>

\* C20: ProcessMultipleSignals over N signals starts one ProcessSignal task
\* per signal, no task ever waits to deliver its result, the call returns
\* only after all N results were delivered and it does return; the slice it
\* returns has length N and holds at i the outcome of signals[i], whatever
\* the order of completion.
C20_BatchJoinsAllResults ==
    /\ []BatchSafety
    /\ <>(bPc = "returned")

C20_Witness ==
    /\ bPc = "returned" /\ BN = 3 /\ bOrder = <<3, 1, 2>>
    /\ bSignals[1].Symbol = "" /\ bSignals[3].Symbol = "btcusdt"
    /\ bRet[1][1] = Errorf("signal validation failed",
                           PlainErr("symbol is required"))
    /\ bRet[1][3] = Nil

-----------------------------------------------------------------------------
(* Specification of a ConfigManager: InitializeBrokers and ReconnectBroker  *)
(* calls one after another, on a Manager whose registry is empty or holds   *)
(* a connector another caller added through GetManager().AddBroker.         *)
NextCfg ==
    KBegin \/ KIterate \/ KFinish \/ KReconnect

InitCfg ==
    /\ kCfg \in Configs /\ IdleCfgCalls
    /\ \E pre \in {0, 1}, up \in BOOLEAN :
         /\ nConns = pre
         /\ brokers = [n \in Names |-> IF n = "okx" THEN pre ELSE 0]
         /\ connected = [c \in ConnIds |-> c <= pre /\ up]
    /\ mRet = Nil /\ mClosed = NoneClosed /\ mFailed = {}
    /\ mOp = "" /\ mBefore = NoBrokers

StartCfg ==
    /\ InitCfg
    /\ IdleInit
    /\ NewClient
    /\ IdleBatch
    /\ IdleAgg
    /\ IdleFan
    /\ IdleErr
    /\ IdleRetry
    /\ IdleOrder
    /\ IdleSignal
    /\ IdleExec
    /\ IdleTest
    /\ IdleVal
    /\ IdleTrack
    /\ IdleReg
    /\ IdleHealth
    /\ IdleClose
    /\ IdlePos

SpecCfg ==
    /\ StartCfg
    /\ [][NextCfg]_vars

KEnabled == {n \in Names : kCfg[1][n].present /\ kCfg[1][n].Enabled}
KFailed  == {n \in Names : kErr[n] # << >> /\ kErr[n][1] # Nil}
KInitializeBrokersDone ==
    kOp = "InitializeBrokers" /\ kPc = "done" /\ kCfg # NilConfig

\* C22: InitializeBrokers, started on an empty registry, calls
\* initializeBroker once for every enabled configured broker and for no
\* other, goes on after a failure, leaves in the registry exactly the
\* enabled brokers whose initialization succeeded, and returns an error
\* exactly when an enabled broker failed.  Without a configuration it
\* returns an error and attempts nothing.
C22_InitializeBrokersPartial ==
    /\ kOp = "InitializeBrokers" =>
         \A n \in Names : kAttempts[n] <= 1
    /\ (kOp = "InitializeBrokers" /\ kPc = "done" /\ kCfg = NilConfig) =>
         (kRet # Nil /\ kAttempts = NoCalls3 /\ brokers = kBefore)
    /\ KInitializeBrokersDone =>
         /\ \A n \in Names : kAttempts[n] = 1 <=> n \in KEnabled
         /\ \A n \in Names : kErr[n] # << >> <=> n \in KEnabled
         /\ kRet # Nil <=> KFailed # {}
         /\ kBefore = NoBrokers =>
              /\ {n \in Names : brokers[n] # 0} = KEnabled \ KFailed
              /\ \A n \in KEnabled \ KFailed : connected[brokers[n]]

C22_Witness ==
    /\ KInitializeBrokersDone /\ kBefore = NoBrokers
    /\ KEnabled = {"binance", "okx"} /\ KFailed = {"okx"}
    /\ kCfg[1]["bitget"].present
    /\ brokers["binance"] # 0 /\ brokers["okx"] = 0 /\ brokers["bitget"] = 0
    /\ kErrors = <<"okx">> /\ kRet # Nil

\* C23: ReconnectBroker(name) leaves every registry entry but that of name
\* on the connector it held and invokes no method on those connectors; the
\* connector of name is closed and a new one initialized in its place; when
\* name is not configured or is disabled the call returns an error and the
\* registry is as before.
C23_ReconnectTouchesOnlyName ==
    (kOp = "ReconnectBroker" /\ kPc = "done") =>
      /\ \A n \in Names \ {kArg} :
           /\ brokers[n] = kBefore[n]
           /\ brokers[n] \notin kTouched
      /\ kBefore[kArg] # 0 /\ kAttempts[kArg] = 1 =>
           (kBefore[kArg] \in kTouched /\ ~connected[kBefore[kArg]]
              /\ brokers[kArg] # kBefore[kArg])
      /\ (~kCfg[1][kArg].present \/ ~kCfg[1][kArg].Enabled) =>
           (kRet # Nil /\ brokers = kBefore /\ kTouched = {}
              /\ kAttempts = NoCalls3)
      /\ kRet = Nil => (brokers[kArg] # 0 /\ connected[brokers[kArg]])

C23_Witness ==
    /\ kOp = "ReconnectBroker" /\ kPc = "done" /\ kArg = "binance"
    /\ kBefore["binance"] # 0 /\ kBefore["okx"] # 0
    /\ brokers["binance"] # 0 /\ brokers["binance"] # kBefore["binance"]
    /\ brokers["okx"] = kBefore["okx"] /\ connected[brokers["okx"]]
    /\ kRet = Nil

\* C24: when applyBrokerSettings fails after a successful initialization,
\* initializeBroker returns nil, the broker is registered and connected,
\* and InitializeBrokers does not count it among the failures.
C24_SettingsFailureNotFatal ==
    \A n \in Names :
      (kPc = "done" /\ kSetErr[n] # Nil) =>
        /\ kErr[n] = <<Nil>>
        /\ brokers[n] # 0 /\ connected[brokers[n]]
        /\ kOp = "InitializeBrokers" =>
             (\A i \in 1 .. Len(kErrors) : kErrors[i] # n)
        /\ (kOp = "InitializeBrokers" /\ KFailed = {}) => kRet = Nil
        /\ kOp = "ReconnectBroker" => kRet = Nil

C24_Witness ==
    /\ KInitializeBrokersDone
    /\ kSetErr["binance"] =
         Errorf("failed to set position mode",
                NewBrokerError("POSITION_MODE_FAILED", PlainErr("other")))
    /\ kErr["binance"] = <<Nil>> /\ kErrors = << >> /\ kRet = Nil
    /\ brokers["binance"] # 0 /\ connected[brokers["binance"]]

-----------------------------------------------------------------------------
(* Specification of one aggregate helper call on a registry of up to        *)
(* MaxConns brokers, each connected or not, a FuturesBroker or not.         *)
NextAgg ==
    EStart \/ ESnapshot \/ ELoop \/ ACall \/ AReturn

Registries ==
    {reg \in [Names -> 0 .. MaxConns] :
        \E k \in 0 .. MaxConns :
          /\ {reg[n] : n \in Names} \ {0} = 1 .. k
          /\ \A n1, n2 \in Names : (reg[n1] = reg[n2] /\ reg[n1] # 0) => n1 = n2}

InitAgg ==
    /\ aKind \in AggKinds /\ aData = NoBrokers /\ aRet = << >>
    /\ brokers \in Registries
    /\ nConns = Cardinality(RegisteredConns)
    /\ connected \in [ConnIds -> BOOLEAN]
    /\ aFutures \in [ConnIds -> BOOLEAN]
    /\ \A c \in ConnIds : c > nConns => (~connected[c] /\ ~aFutures[c])
    /\ mRet = Nil /\ mClosed = NoneClosed /\ mFailed = {}
    /\ mOp = "" /\ mBefore = NoBrokers

StartAgg ==
    /\ InitAgg
    /\ IdleInit
    /\ NewClient
    /\ IdleBatch
    /\ IdleCfg
    /\ IdleFan
    /\ IdleErr
    /\ IdleRetry
    /\ IdleOrder
    /\ IdleSignal
    /\ IdleExec
    /\ IdleTest
    /\ IdleVal
    /\ IdleTrack
    /\ IdleReg
    /\ IdleHealth
    /\ IdleClose
    /\ IdlePos

SpecAgg ==
    /\ StartAgg
    /\ [][NextAgg]_vars

ALive(n) == Registered(n) /\ connected[brokers[n]]

\* C25: the aggregate helpers keep the per-broker partial-failure semantics:
\* every connected broker is called once whatever the others did;
\* GetAllPositions and GetAllAccountInfo return an entry for exactly the
\* connected brokers whose query succeeded; CloseAllPositions and
\* SetLeverageOnAllBrokers return an error entry for exactly the failing
\* brokers, the error of a connector that is no FuturesBroker being "does
\* not support futures operations" in CloseAllPositions.
C25_AggregatesPartialFailure ==
    aRet # << >> =>
      /\ \A n \in Names : eCalls[n] = (IF ALive(n) THEN 1 ELSE 0)
      /\ aKind \in AggQueries =>
           \A n \in Names :
             /\ aRet[1][n] # 0 <=> (ALive(n) /\ eOpErr[n] = Nil)
             /\ aRet[1][n] # 0 => aRet[1][n] = brokers[n]
      /\ aKind \notin AggQueries =>
           \A n \in Names :
             /\ aRet[1][n] # << >> <=>
                  (Registered(n) /\ (~connected[brokers[n]] \/ eOpErr[n] # Nil))
             /\ (ALive(n) /\ eOpErr[n] # Nil) => aRet[1][n] = <<eOpErr[n]>>
             /\ (aKind = "CloseAllPositions" /\ ALive(n)
                   /\ ~aFutures[brokers[n]]) => aRet[1][n] = <<NoFuturesErr>>
             /\ (aKind = "SetLeverageOnAllBrokers" /\ ALive(n)) =>
                  eOpErr[n] # NoFuturesErr

C25_Witness ==
    /\ aRet # << >> /\ aKind = "CloseAllPositions"
    /\ \A n \in Names : ALive(n)
    /\ ~aFutures[brokers["binance"]] /\ aFutures[brokers["okx"]]
    /\ aFutures[brokers["bitget"]]
    /\ aRet[1]["binance"] = <<NoFuturesErr>>
    /\ aRet[1]["okx"] = << >> /\ aRet[1]["bitget"] # << >>
    /\ \A n \in Names : eCalls[n] = 1

-----------------------------------------------------------------------------
(* Specification of one TestConnections call on a registry of up to         *)
(* MaxConns Binance connectors.  A connector reports connected only with    *)
(* its SDK client set (binance/client.go:48-57, 432-436).                   *)
NextTest ==
    TStart \/ TIterate \/ TReturn

InitTest ==
    /\ tPc = "idle" /\ tTodo = {} /\ tCalls = NoCalls3
    /\ tOut = [n \in Names |-> Nil] /\ tResults = [n \in Names |-> << >>]
    /\ tRet = << >>
    /\ brokers \in Registries
    /\ nConns = Cardinality(RegisteredConns)
    /\ connected \in [ConnIds -> BOOLEAN]
    /\ tClient \in [ConnIds -> BOOLEAN]
    /\ tLink \in [ConnIds -> BOOLEAN]
    /\ \A c \in ConnIds :
         /\ connected[c] => tClient[c]
         /\ c > nConns => (~connected[c] /\ ~tClient[c] /\ ~tLink[c])
    /\ mRet = Nil /\ mClosed = NoneClosed /\ mFailed = {}
    /\ mOp = "" /\ mBefore = NoBrokers

StartTest ==
    /\ InitTest
    /\ IdleInit
    /\ NewClient
    /\ IdleBatch
    /\ IdleCfg
    /\ IdleAgg
    /\ IdleFan
    /\ IdleErr
    /\ IdleRetry
    /\ IdleOrder
    /\ IdleSignal
    /\ IdleExec
    /\ IdleVal
    /\ IdleTrack
    /\ IdleReg
    /\ IdleHealth
    /\ IdleClose
    /\ IdlePos

SpecTest ==
    /\ StartTest
    /\ [][NextTest]_vars

\* C26: TestConnections calls TestConnection once on every registered
\* broker, connected or not, and the map it returns has an entry, the
\* error, for exactly the brokers whose TestConnection failed; with a
\* registry of two brokers, one connected and answering and one that is
\* not connected, the result is an entry for the second only.
C26_TestConnectionsReportsFailures ==
    /\ \A n \in Names : tCalls[n] <= 1
    /\ tRet # << >> =>
         /\ \A n \in Names :
              /\ tCalls[n] = (IF Registered(n) THEN 1 ELSE 0)
              /\ tRet[1][n] # << >> <=> (Registered(n) /\ tOut[n] # Nil)
              /\ tRet[1][n] # << >> => tRet[1][n] = <<tOut[n]>>
              /\ Registered(n) => tOut[n] = TestConnection(brokers[n])
         /\ \A a, b \in Names :
              ( /\ {n \in Names : Registered(n)} = {a, b} /\ a # b
                /\ connected[brokers[a]] /\ tLink[brokers[a]]
                /\ ~connected[brokers[b]] /\ ~tClient[brokers[b]] )
              => {n \in Names : tRet[1][n] # << >>} = {b}

C26_Witness ==
    /\ tRet # << >>
    /\ {n \in Names : Registered(n)} = {"binance", "okx"}
    /\ connected[brokers["binance"]] /\ tLink[brokers["binance"]]
    /\ ~connected[brokers["okx"]] /\ ~tClient[brokers["okx"]]
    /\ tRet[1]["okx"] = <<Sentinel("ErrNotConnected")>>
    /\ tRet[1]["binance"] = << >> /\ tCalls["binance"] = 1
    /\ tCalls["okx"] = 1

-----------------------------------------------------------------------------
(* Further claims on the request builders, under SpecOrder.                 *)
ExpectedPositionSide(target) ==
    CASE target > 0 -> "LONG"
      [] target < 0 -> "SHORT"
      [] target = 0 -> "BOTH"

\* The requests the two builders make of the signal s, those that are built.
BuiltRequests(s) ==
    {r \in {calculateOrderFromSignal(s).req, convertSignalToOrderRequest(s).req}
        : r # << >>}

\* C27: the position side of the request either builder makes of a signal
\* is Long for a positive target size, Short for a negative one and Both
\* for zero, whatever the previous size.
C27_PositionSideFromTarget ==
    /\ \A b \in {oReqSP, oReqTS} :
         (b # << >> /\ b[1].req # << >>) =>
           b[1].req[1].PositionSide = ExpectedPositionSide(OTarget.v)
    /\ (oReqSP # << >> /\ OTarget.err = Nil) =>
         \A prev \in SizeStrs :
           \A r \in BuiltRequests([oSig EXCEPT !.PrevMarketPositionSize = prev]) :
             r[1].PositionSide = ExpectedPositionSide(OTarget.v)

C27_Witness ==
    /\ OCurrent.v = 5 /\ OTarget.v = 0
    /\ oReqSP # << >> /\ oReqSP[1].req # << >>
    /\ oReqSP[1].req[1].PositionSide = "BOTH" /\ oReqSP[1].req[1].Side = "SELL"
    /\ oReqTS # << >> /\ oReqTS[1].req # << >>
    /\ oReqTS[1].req[1].PositionSide = "BOTH"

-----------------------------------------------------------------------------
(* Further claims on TradingService.executeOnBinance, under SpecExec.       *)
XPrev   == ParseFloat(xSig.PrevMarketPositionSize)
XTarget == ParseFloat(xSig.MarketPositionSize)
XSizesParse == XPrev.err = Nil /\ XTarget.err = Nil

\* C29: convertSignalToOrderRequest returns no request and no error when
\* the previous and target sizes are equal, and a request when they
\* differ; on equal sizes executeOnBinance, once it has its client,
\* returns nil without calling PlaceOrder.
C29_NoChangeIsSuccess ==
    (xMode = "signal" /\ XSizesParse) =>
      LET r == convertSignalToOrderRequest(xSig) IN
      /\ XPrev.v = XTarget.v => (r.req = << >> /\ r.err = Nil)
      /\ XPrev.v # XTarget.v => (r.req # << >> /\ r.err = Nil)
      /\ (XPrev.v = XTarget.v /\ xPc = "done" /\ xClient # "none") =>
           (xRet = Nil /\ xPlaceCalls = 0 /\ xReq = << >>)
      /\ (XPrev.v = XTarget.v) => (xPc # "place" /\ xPlaceCalls = 0)
      /\ (XPrev.v # XTarget.v /\ xPc = "place") => xReq = r.req

C29_Witness ==
    /\ xMode = "signal" /\ xPc = "done" /\ xClient = "closed"
    /\ XSizesParse /\ XPrev.v = 5 /\ XTarget.v = 5
    /\ xRet = Nil /\ xPlaceCalls = 0

-----------------------------------------------------------------------------
(* Specification of order validation: one request, nil or with fields      *)
(* drawn from the sets above, handed to ValidateOrderRequest or to the     *)
(* PlaceOrder of a connector that is connected or not.                     *)
NextVal ==
    VValidate \/ VPlaceOrder

InitVal ==
    /\ vReq \in {<<r>> : r \in OrderRequests} \cup {<< >>}
    /\ vConnected \in BOOLEAN
    /\ vOp = "" /\ vRet = Nil /\ vSubmitted = {} /\ vSdkErr = Nil

StartVal ==
    /\ InitVal
    /\ IdleInit
    /\ NewClient
    /\ IdleBatch
    /\ IdleCfg
    /\ IdleAgg
    /\ IdleTest
    /\ IdleMgr
    /\ IdleFan
    /\ IdleErr
    /\ IdleRetry
    /\ IdleOrder
    /\ IdleSignal
    /\ IdleExec
    /\ IdleTrack
    /\ IdleReg
    /\ IdleHealth
    /\ IdleClose
    /\ IdlePos

SpecVal ==
    /\ StartVal
    /\ [][NextVal]_vars

\* The string parses to a strictly positive number.
StrictlyPositive(str) ==
    \/ str.kind = "num" /\ str.v > 0
    \/ str.kind = "inf" /\ str.v > 0

\* The request is one the contract admits.
WellFormed(req) ==
    /\ req # << >>
    /\ req[1].Symbol # ""
    /\ req[1].Side \in {"BUY", "SELL"}
    /\ req[1].Type \in {"MARKET", "LIMIT"}
    /\ StrictlyPositive(req[1].Quantity)
    /\ req[1].Type = "LIMIT" => StrictlyPositive(req[1].Price)

\* C28: ValidateOrderRequest returns nil if and only if the request is
\* non-nil with a non-empty symbol, side Buy or Sell, type Market or Limit,
\* a quantity that parses to a strictly positive number and, for a Limit
\* order, a price that parses to a strictly positive number; and every
\* request PlaceOrder hands to the exchange SDK satisfies the same.
C28_OnlyWellFormedOrders ==
    /\ vOp = "ValidateOrderRequest" => (vRet = Nil <=> WellFormed(vReq))
    /\ \A r \in vSubmitted : WellFormed(<<r>>)

-----------------------------------------------------------------------------
(* Specification of order tracking: a signal as executeOnBinance leaves it *)
(* (pending, not executed), with or without an order id, tracked by any    *)
(* number of calls.                                                        *)
NextTrack ==
    TKCall \/ TKTick

InitTrack ==
    /\ tkOrderID \in {"", "12345"}
    /\ tkStatus = "pending" /\ tkExecutedAt = 0 /\ tkErrorMessage = ""
    /\ tkNow = 1 /\ tkCall = << >> /\ tkRet = Nil /\ tkSaved = << >>

StartTrack ==
    /\ InitTrack
    /\ IdleInit
    /\ NewClient
    /\ IdleBatch
    /\ IdleCfg
    /\ IdleAgg
    /\ IdleTest
    /\ IdleVal
    /\ IdleMgr
    /\ IdleFan
    /\ IdleErr
    /\ IdleRetry
    /\ IdleOrder
    /\ IdleSignal
    /\ IdleExec
    /\ IdleReg
    /\ IdleHealth
    /\ IdleClose
    /\ IdlePos

SpecTrack ==
    /\ StartTrack
    /\ [][NextTrack]_vars

\* The latest call got an order from the exchange.
TKAnswered == tkCall # << >> /\ tkOrderID # "" /\ tkCall[1].getErr = Nil

\* C30: a call that gets the order sets the signal status to 'filled' for
\* Filled, 'failed' for Canceled, Rejected or Expired, 'partially_filled'
\* for PartiallyFilled and 'pending' for any other status; a call changes
\* ExecutedAt only when the order is Filled, and never once it is set.
C30_StatusFromOrderStatus ==
    tkCall # << >> =>
      /\ TKAnswered =>
           /\ tkCall[1].order = "FILLED" => tkStatus = "filled"
           /\ tkCall[1].order \in {"CANCELED", "REJECTED", "EXPIRED"}
                => tkStatus = "failed"
           /\ tkCall[1].order = "PARTIALLY_FILLED"
                => tkStatus = "partially_filled"
           /\ tkCall[1].order \in {"NEW", "PENDING_CANCEL"}
                => tkStatus = "pending"
      /\ tkExecutedAt # tkCall[1].ExecutedAt =>
           (TKAnswered /\ tkCall[1].order = "FILLED")
      /\ tkCall[1].ExecutedAt # 0 => tkExecutedAt = tkCall[1].ExecutedAt
      /\ (TKAnswered /\ tkCall[1].order = "FILLED" /\ tkCall[1].ExecutedAt = 0)
           => tkExecutedAt = tkCall[1].at

C30_Witness ==
    /\ TKAnswered /\ tkCall[1].order = "FILLED"
    /\ tkCall[1].Status = "partially_filled"
    /\ tkCall[1].ExecutedAt = 1 /\ tkCall[1].at = 3
    /\ tkStatus = "filled" /\ tkExecutedAt = 1 /\ tkRet = Nil

-----------------------------------------------------------------------------
(* Specification of AddBroker and RemoveBroker calls in any order on a     *)
(* Manager that starts empty.                                              *)
NextReg ==
    GAddBroker \/ GRemoveBroker

StartReg ==
    /\ IdleReg
    /\ IdleMgr
    /\ IdleInit
    /\ NewClient
    /\ IdleBatch
    /\ IdleCfg
    /\ IdleAgg
    /\ IdleTest
    /\ IdleVal
    /\ IdleTrack
    /\ IdleFan
    /\ IdleErr
    /\ IdleRetry
    /\ IdleOrder
    /\ IdleSignal
    /\ IdleExec
    /\ IdleHealth
    /\ IdleClose
    /\ IdlePos

SpecReg ==
    /\ StartReg
    /\ [][NextReg]_vars

\* C31: AddBroker with a nil broker returns an error and leaves the
\* registry as it was, creating or replacing no entry under the name;
\* RemoveBroker of a name that is not registered returns an error and
\* leaves the registry as it was.
C31_RejectedCallsLeaveRegistry ==
    gCall # << >> =>
      /\ (gCall[1].op = "AddBroker" /\ gCall[1].broker = 0) =>
           /\ mRet # Nil
           /\ brokers = gCall[1].before /\ connected = gCall[1].flags
      /\ (gCall[1].op = "RemoveBroker"
            /\ gCall[1].before[gCall[1].name] = 0) =>
           /\ mRet # Nil
           /\ brokers = gCall[1].before /\ connected = gCall[1].flags

C31_Witness ==
    /\ gCall # << >>
    /\ gCall[1].op = "AddBroker" /\ gCall[1].broker = 0
    /\ gCall[1].name = "binance" /\ gCall[1].before["binance"] = 2
    /\ gCall[1].before["okx"] = 0
    /\ brokers["binance"] = 2 /\ mRet = PlainErr("broker cannot be nil")

\* C32: when the exchange SDK fails a PlaceOrder of the Binance connector
\* transiently (rate limit, network error, timeout, server error), the
\* error PlaceOrder returns is one IsRetryableError accepts, so
\* executeOnBinance retries after it.
C32_TransientPlaceFailureRetryable ==
    (vOp = "PlaceOrder" /\ vSdkErr \in SdkTransient) =>
      (IsRetryableError(vRet) /\ RetriesAfter(vRet))

-----------------------------------------------------------------------------
(* Specification of one HealthCheck call beside AddBroker, RemoveBroker    *)
(* and Close calls of other goroutines.                                    *)
NextHealth ==
    TStart \/ TIterate \/ TReturn \/ HRange
        \/ HAddBroker \/ MRemoveBroker \/ MClose

InitHealth ==
    /\ tPc = "idle" /\ tTodo = {} /\ tCalls = NoCalls3
    /\ tOut = [n \in Names |-> Nil] /\ tResults = [n \in Names |-> << >>]
    /\ tRet = << >> /\ hRet = << >>
    /\ brokers \in Registries
    /\ nConns = Cardinality(RegisteredConns)
    /\ connected \in [ConnIds -> BOOLEAN]
    /\ tClient \in [ConnIds -> BOOLEAN]
    /\ tLink \in [ConnIds -> BOOLEAN]
    /\ \A c \in ConnIds :
         /\ connected[c] => tClient[c]
         /\ c > nConns => ~connected[c]
         /\ tLink[c] => tClient[c]
    /\ mRet = Nil /\ mClosed = NoneClosed /\ mFailed = {}
    /\ mOp = "" /\ mBefore = NoBrokers

StartHealth ==
    /\ InitHealth
    /\ IdleInit
    /\ NewClient
    /\ IdleBatch
    /\ IdleCfg
    /\ IdleAgg
    /\ IdleVal
    /\ IdleTrack
    /\ IdleReg
    /\ IdleFan
    /\ IdleErr
    /\ IdleRetry
    /\ IdleOrder
    /\ IdleSignal
    /\ IdleExec
    /\ IdleClose
    /\ IdlePos

SpecHealth ==
    /\ StartHealth
    /\ [][NextHealth]_vars

\* C33: no TestConnection call of TestConnections is made while the
\* Manager's lock is held: whenever a call on a broker is about to be
\* made, AddBroker, RemoveBroker and Close are free to run.
C33_TestsDoNotBlockMutation ==
    (tPc = "ranging" /\ tTodo # {}) =>
      /\ ~RLockHeld
      /\ ENABLED MRemoveBroker /\ ENABLED MClose
      /\ nConns < MaxConns => ENABLED MAddBroker

\* C36: HealthCheck reports a name healthy only if TestConnection was
\* invoked on its broker during this HealthCheck and returned nil, and the
\* keys of its result are exactly the names whose broker was tested.
C36_HealthOnlyOfTested ==
    hRet # << >> =>
      \A n \in Names :
        /\ hRet[1][n] = <<TRUE>> => (tCalls[n] = 1 /\ tOut[n] = Nil)
        /\ hRet[1][n] # << >> <=> tCalls[n] > 0

-----------------------------------------------------------------------------
(* Specification of InitializeBroker, RemoveBroker and Close calls in any  *)
(* order on a Manager that starts empty: every connector is one the        *)
(* Manager created, and it reports connected from its successful           *)
(* Initialize until its Close.                                             *)
NextOwn ==
    IBCreate \/ IBInitialize \/ IBAdd \/ MRemoveBroker \/ MClose

SpecOwn ==
    /\ StartInit
    /\ [][NextOwn]_vars

\* C34: between the calls, every connector the Manager initialized
\* successfully is the registry entry of its name or has had Close called
\* on it, also after InitializeBroker of a name that is registered.
C34_NoOrphanedConnector ==
    ibPc \in {"idle", "done"} =>
      \A c \in 1 .. nConns : connected[c] => c \in RegisteredConns

-----------------------------------------------------------------------------
(* Specification of one ExecuteOnAllBrokers call and one ProcessSignal     *)
(* call, each in its goroutine, beside RemoveBroker and Close calls of     *)
(* others, on a registry that holds the binance connector, connected.      *)
(* The connector reports connected until its Close.                        *)
NextGone ==
    EStart \/ ESnapshot \/ ELoop \/ ECall
        \/ SPValidate \/ SPGetBroker \/ SPIsConnected \/ SPSetLeverage
        \/ SPCalculate \/ SPPlaceOrder
        \/ MRemoveBroker \/ MClose

\* Signals for the binance connector that pass validation.
GoneSignals ==
    {s \in Signals :
       /\ s.Symbol = "btcusdt" /\ s.Exchange = "Binance" /\ s.Action = "buy"
       /\ s.MarketPositionSize \in {NumStr(0), NumStr(5)}
       /\ s.PrevMarketPositionSize \in {NumStr(0), BadStr}
       /\ s.OrderType = "market" /\ s.Price = ""}

InitGone ==
    /\ spSig \in GoneSignals /\ spPc = "validate" /\ spBroker = 0
    /\ spReq = << >> /\ spRet = Nil /\ spCalls = NoCalls /\ spLevErr = Nil
    /\ spPlaceErr = Nil /\ spTrace = << >>
    /\ brokers = [n \in Names |-> IF n = "binance" THEN 1 ELSE 0]
    /\ nConns = 1 /\ mRet = Nil
    /\ mClosed = [c \in ConnIds |-> 0] /\ mFailed = {}
    /\ mOp = "" /\ mBefore = NoBrokers
    /\ connected = [c \in ConnIds |-> c = 1]

StartGone ==
    /\ InitGone
    /\ IdleErr
    /\ IdleRetry
    /\ IdleOrder
    /\ IdleFan
    /\ IdleExec
    /\ IdleExt

SpecGone ==
    /\ StartGone
    /\ [][NextGone]_vars

\* The step hands a connector to the operation callback of the fan-out.
CallbackInvoked == eCalls' # eCalls

\* The step calls SetLeverage or PlaceOrder of ProcessSignal's connector.
ConnectorUsed ==
    \/ spCalls'.setLeverage # spCalls.setLeverage
    \/ spCalls'.placeOrder # spCalls.placeOrder

\* C35: a connector that RemoveBroker or Close has closed is never
\* afterwards handed to an operation callback by the fan-out, nor used
\* for SetLeverage or PlaceOrder by ProcessSignal, whatever the
\* interleaving with the removal.
C35_ClosedConnectorNeverUsed ==
    [][ /\ CallbackInvoked => connected[eSnap[eCur]]
        /\ ConnectorUsed => connected[spBroker] ]_vars

-----------------------------------------------------------------------------
(* A further claim on RetryWithBackoff, under SpecRetry.                    *)

\* C37: RetryWithBackoff returns nil only if an invocation of fn returned
\* nil, for every maxRetries, zero and negative values included.
C37_NilOnlyAfterSuccess ==
    (RetryDone /\ rRet = Nil) => (rCalls > 0 /\ rLastRes = Nil)

-----------------------------------------------------------------------------
(* Further claims on the classification, under SpecErr.                     *)

\* C38 (as stated): every retryable error stays retryable when it is
\* wrapped as the cause of a BrokerError with any code, and when it is
\* wrapped with fmt.Errorf("%w").
C38_RetryablePreservedByWrapping ==
    clsOut = "retryable" =>
      /\ \A code \in Codes : IsRetryableError(NewBrokerError(code, clsErr))
      /\ IsRetryableError(Errorf("failed", clsErr))

\* C38: every retryable error stays retryable when it is wrapped with
\* fmt.Errorf("%w"); wrapped as the cause of a BrokerError it stays
\* retryable when it is or wraps one of the three retryable sentinels or
\* the BrokerError's code is a retryable one, and not otherwise.
C38_RetryablePreservedBySentinelOrCode ==
    clsOut = "retryable" =>
      /\ IsRetryableError(Errorf("failed", clsErr))
      /\ \A code \in Codes :
           IsRetryableError(NewBrokerError(code, clsErr))
             <=> (WrapsRetrySentinel(clsErr) \/ code \in RetryCodes)

C38_Witness ==
    /\ clsOut = "retryable"
    /\ clsErr = Errorf("failed", Sentinel("ErrTimeout"))
    /\ IsRetryableError(NewBrokerError("CLOSE_POSITION_FAILED", clsErr))
    /\ IsRetryableError(Errorf("failed", clsErr))

-----------------------------------------------------------------------------
(* Specification of ClosePosition calls, one after another, on a connector *)
(* that is connected or not, for a symbol with or without a position.      *)
NextClose ==
    ZClosePosition \/ ZNext

InitClose ==
    /\ cpPos \in {<<sz>> : sz \in PositionSizes} \cup {<< >>}
    /\ cpConnected \in BOOLEAN
    /\ cpSide \in {"LONG", "SHORT", "BOTH"}
    /\ cpDone = FALSE /\ cpRet = Nil /\ cpOrders = << >>
    /\ cpAccepted = FALSE

StartClose ==
    /\ InitClose
    /\ IdleInit
    /\ NewClient
    /\ IdleBatch
    /\ IdleCfg
    /\ IdleAgg
    /\ IdleTest
    /\ IdleVal
    /\ IdleTrack
    /\ IdleReg
    /\ IdleHealth
    /\ IdleMgr
    /\ IdleFan
    /\ IdleErr
    /\ IdleRetry
    /\ IdleOrder
    /\ IdleSignal
    /\ IdleExec
    /\ IdlePos

SpecClose ==
    /\ StartClose
    /\ [][NextClose]_vars

\* The parsed size of the position.
CPSize == ParseFloat(cpPos[1]).v

\* C39: ClosePosition on a connected connector with a non-zero position
\* submits exactly one reduce-only market order, its quantity the
\* magnitude of the size and its side opposite to the size's sign (Sell
\* for a long, Buy for a short), when the exchange answers the position
\* query; it returns nil when the exchange accepts the order.
C39_ClosesBothDirections ==
    (cpDone /\ cpConnected /\ cpPos # << >> /\ CPSize # 0
       /\ cpRet # Errorf("failed to get position",
                         NewBrokerError("POSITIONS_FAILED", SdkError))) =>
      /\ Len(cpOrders) = 1
      /\ cpOrders[1].ReduceOnly /\ cpOrders[1].Type = "MARKET"
      /\ cpOrders[1].Quantity =
           NumStr(IF CPSize > 0 THEN CPSize ELSE -CPSize)
      /\ cpOrders[1].Side = (IF CPSize > 0 THEN "SELL" ELSE "BUY")
      /\ cpAccepted => cpRet = Nil

(***************************************************************************)
(* validatePositionChange of the two trading services                      *)
(* (enhanced_trading.go:283-325, trading.go:602-644).  Both load the       *)
(* user's positions, parse the signal's prev_market_position_size and,     *)
(* when a position of the symbol is stored, its size; a difference between *)
(* the two is logged only.  They differ in the parser: TradingService      *)
(* calls strconv.ParseFloat, EnhancedTradingService its helper parseFloat. *)
(***************************************************************************)
\* What GetUserPositions can return as error.
PositionsLoadError == PlainErr("database error")

\* parseFloat (enhanced_trading.go:355-358): broker.ParseQuantity.
parseFloat(str) ==
    [v |-> ParseFloat(str).v, err |-> ParseQuantity(str)]

\* strconv.ParseFloat as TradingService calls it.
parseFloat_Strconv(str) ==
    [v |-> ParseFloat(str).v, err |-> ParseFloat(str).err]

\* The parser each service's method calls.
parse(service, str) ==
    IF service = "EnhancedTradingService" THEN parseFloat(str)
    ELSE parseFloat_Strconv(str)

\* The body the two methods share: the error returned and whether a
\* warning was logged.
validatePositionChange(service, loadErr, prev, stored) ==
    IF loadErr # Nil
      THEN [err |-> Errorf("failed to get user positions: %w", loadErr),
            warned |-> FALSE]
    ELSE LET prevSize == parse(service, prev) IN
      IF prevSize.err # Nil
        THEN [err |-> Errorf("invalid prev_market_position_size: %w",
                             prevSize.err),
              warned |-> FALSE]
      ELSE IF stored # << >>
        THEN LET currentSize == parse(service, stored[1]) IN
             IF currentSize.err # Nil
               THEN [err |-> Errorf("invalid current position size: %w",
                                    currentSize.err),
                     warned |-> FALSE]
               ELSE [err |-> Nil, warned |-> currentSize.v # prevSize.v]
        ELSE [err |-> Nil, warned |-> prevSize.v # 0]

\* EnhancedTradingService.validatePositionChange
\* (enhanced_trading.go:283-325).
PEnhanced ==
    /\ pvEnhanced = << >>
    /\ pvEnhanced' =
         <<validatePositionChange("EnhancedTradingService", pvLoadErr,
                                  pvPrev, pvStored)>>
    /\ UNCHANGED <<pvPrev, pvStored, pvLoadErr, pvOriginal>>
    /\ UNCHANGED notPos

\* TradingService.validatePositionChange (trading.go:602-644).
POriginal ==
    /\ pvOriginal = << >>
    /\ pvOriginal' =
         <<validatePositionChange("TradingService", pvLoadErr, pvPrev,
                                  pvStored)>>
    /\ UNCHANGED <<pvPrev, pvStored, pvLoadErr, pvEnhanced>>
    /\ UNCHANGED notPos

NextPos == PEnhanced \/ POriginal

InitPos ==
    /\ pvPrev \in SizeStrs
    /\ pvStored \in {<< >>} \cup {<<str>> : str \in SizeStrs}
    /\ pvLoadErr \in {Nil, PositionsLoadError}
    /\ pvEnhanced = << >> /\ pvOriginal = << >>

StartPos ==
    /\ InitPos
    /\ IdleInit
    /\ NewClient
    /\ IdleBatch
    /\ IdleCfg
    /\ IdleAgg
    /\ IdleTest
    /\ IdleVal
    /\ IdleTrack
    /\ IdleReg
    /\ IdleHealth
    /\ IdleClose
    /\ IdleMgr
    /\ IdleFan
    /\ IdleErr
    /\ IdleRetry
    /\ IdleOrder
    /\ IdleSignal
    /\ IdleExec

SpecPos == StartPos /\ [][NextPos]_vars

\* A size string that is a number.
IsNumber(str) == ParseFloat(str).err = Nil

\* C40: EnhancedTradingService.validatePositionChange returns nil for
\* every prev_market_position_size and stored position size that is a
\* number, 0 and negative sizes included, when the positions load; it
\* returns an error only when the positions cannot be loaded or a size is
\* not a number; and it returns nil exactly when
\* TradingService.validatePositionChange does.
C40_SizeValuesNeverRejected ==
    pvEnhanced # << >> =>
      /\ (/\ pvLoadErr = Nil
          /\ IsNumber(pvPrev)
          /\ (pvStored # << >> => IsNumber(pvStored[1])))
           <=> pvEnhanced[1].err = Nil
      /\ pvOriginal # << >> =>
           (pvEnhanced[1].err = Nil <=> pvOriginal[1].err = Nil)

====
